---------------------------- MODULE Spec2Model ----------------------------
(***************************************************************************)
(* Verification model of the psx-lab OoT renderer core:                    *)
(*   - the per-frame transform / cull / sort loop (room.cpp, skeleton.cpp) *)
(*   - the VRAM texture atlas allocator (vram_alloc.h)                     *)
(*   - the skeleton animator's frame counter (skeleton.cpp)                *)
(*   - the SKM / PRM mesh offset accessors (skm.h, prm.h)                  *)
(*   - the bone hierarchy (skeleton.cpp computeBones)                      *)
(*   - asset loading and texture upload (room.cpp, skeleton.cpp)           *)
(* Each subsystem has its own specification over the shared variables; the *)
(* variables of the other subsystems keep their constructed values.        *)
(***************************************************************************)
EXTENDS Integers, Sequences, FiniteSets, TLC

VARIABLES
    \* ---- RoomScene rendering state (scene.h:99-105, 57-58) ----
    pc,          \* position inside RoomScene::frame: "idle" | "chunks" | "skel" | "submit"
    ci,          \* loop index of the chunk loop of frame()
    gpuParity,   \* what gpu().getParity() returns for the frame being built
    m_parity,    \* RoomScene::m_parity
    m_triCount,  \* RoomScene::m_triCount
    m_ots,       \* RoomScene::m_ots[2]: per parity, the inserts made since clear()
    m_tris,      \* RoomScene::m_tris[2]: per parity, the draw-record pool
    g_scratch,   \* g_scratch[]: the entries written so far (index i is element i+1)
    chained,     \* per parity, the draw order of the table last handed to gpu().chain()
    m_bones,     \* RoomScene::m_bones[]: per limb index, the pose last computed
    limbTrace,   \* m_triCount and table length before limb 0 and after each drawLimb
    frameWrites, \* pool slots written since the frame began, in order
    drained,     \* the buffer last handed to the display: its parity, table and pool
    m_prm,       \* the resident room mesh (read-only blob)
    m_skm,       \* the resident skeleton mesh (read-only blob), limbs and animations
    \* ---- VramAlloc::Allocator (vram_alloc.h:164-175) ----
    m_numSlots, m_slots, m_texCurX, m_texCurY, m_texRowH, m_clutCurX, m_clutCurY,
    lastRet,     \* return value of the last alloc() call (-2 before any call)
    reqs,        \* the alloc() requests made since the last reset(), with their results
    phase,       \* allocator scenario: "boot" | "record" | "replay" | "drawn"
    recorded,    \* the run before the second reset(): requests, results, slots
    \* ---- animation state (scene.h:129-132) ----
    m_animIdx, m_animFrame, m_animPaused,
    animTrace,   \* frame indices seen since the animation last (re)started at 0
    \* ---- SKM::LimbMeshCache (skm.h:185-197) and the queried addresses ----
    cacheBuilt,  \* LimbMeshCache::build has run
    offsets,     \* LimbMeshCache::offsets[], the entries build wrote
    query,       \* the last limb lookup: linear-scan and cached addresses
    prmQuery,    \* the last chunk lookup: addresses of its sub-arrays
    \* ---- asset loading and texture upload (scene.h:108-125) ----
    loadPc,      \* "boot" | "skel" (skeleton read in flight) | "room" (room read in flight) | "ready"
    m_roomBuf,   \* RoomScene::m_roomBuf: the buffer the room callback received
    m_skelBuf,   \* RoomScene::m_skelBuf: the buffer the skeleton callback received
    m_loading, m_needUpload, m_skelLoaded, m_skelTexBase,
    m_roomIdx,   \* RoomScene::m_roomIdx: the room shown in the HUD and used for the spawn
    m_skelPos,   \* <<m_skelX, m_skelY, m_skelZ>>
    pending,     \* the room files whose reads are in flight, oldest first
    uploaded,    \* the textures uploadTextures last went through, with their results
    \* ---- a single call of transformVertices (room.cpp:127-171) ----
    xf,          \* its arguments, the scratch before it and the GTE operations it issued
    \* ---- the texture lookup of one emitted triangle (room.cpp:220-229) ----
    texTri,      \* its slot, the stored UVs of its vertices and the UVs written
    \* ---- the audio engine (psx_audio.cpp) ----
    channels,    \* Channel channels[8]: music voices 0-3, SFX voices 4-7
    spuKeyed,    \* the SPU voices keyed on (hardware key-on / key-off registers)
    music_pattern, music_loop_start, sfx_next_voice,
    audioReady,  \* audio_init() has run
    musicData,   \* music_data.h / sfx_data.h: the pattern table and the SFX table
    \* ---- the Celeste platform layer (celeste/main.cpp) ----
    g_rs,        \* RenderState g_rs: pool indexes, zCounter, tpageIsFont
    p8pc,        \* "idle" between frames | "draw" while the game runs inside frame()
    p8ins,       \* the indexes the latest draw callback passed to g_rs.ot->insert
    p8low,       \* the lowest ordering-table index inserted at in this frame
    p8others     \* draw callbacks other than SPR made in this frame

renderVars == <<pc, ci, gpuParity, m_parity, m_triCount, m_ots, m_tris, g_scratch,
                chained, m_prm, m_bones, limbTrace, frameWrites, drained>>
allocVars  == <<m_numSlots, m_slots, m_texCurX, m_texCurY, m_texRowH, m_clutCurX,
                m_clutCurY, lastRet, reqs, phase, recorded>>
animVars   == <<m_animIdx, m_animFrame, m_animPaused, animTrace>>
meshVars   == <<cacheBuilt, offsets, query, prmQuery>>
loadVars   == <<loadPc, m_roomBuf, m_skelBuf, m_loading, m_needUpload, m_skelLoaded,
                m_skelTexBase, m_roomIdx, m_skelPos, pending, uploaded>>
xformVars  == <<xf>>
texVars    == <<texTri>>
audioVars  == <<channels, spuKeyed, music_pattern, music_loop_start, sfx_next_voice,
                audioReady, musicData>>
p8Vars     == <<g_rs, p8pc, p8ins, p8low, p8others>>
extVars    == <<xformVars, texVars, audioVars, p8Vars>>
vars == <<renderVars, allocVars, animVars, meshVars, loadVars, extVars, m_skm>>

-----------------------------------------------------------------------------
(* Program constants *)

OT_SIZE  == 1024
MAX_TRIS == 1200
MAX_VTX  == 256
MAX_TEXTURES == 32
TEX_X0  == 320
TEX_X1  == 1024
TEX_Y0  == 0
TEX_Y1  == 496
CLUT_X1 == 1024
CLUT_Y0 == 496
CLUT_Y1 == 512
NO_LINK == 255
MAX_LIMBS == 21

(* Model bounds *)

MaxChunkTris == 2
MaxAllocs    == 4
MaxCalls     == 34
MaxWarm      == 1
MaxRecord    == 3
MaxFrameCount == 3
MaxTrace     == 7
MaxLimbs     == 3
MaxOver      == 1
MaxTexTable  == 2
MaxPending   == 2
MaxSfxVoices == 1
MaxOther     == 2
MaxUnder     == 1
MaxTiles     == 2

Min2(a, b) == IF a < b THEN a ELSE b
Max2(a, b) == IF a > b THEN a ELSE b


-----------------------------------------------------------------------------
(* Scratch vertices and the GTE                                            *)

\* ScreenVtx (scene.h:44-48); g_scratch has static storage, so it starts zeroed.
ZeroVtx == [sx |-> 0, sy |-> 0, sz |-> 0]

\* The GTE is hardware: a mesh position is represented by the screen X/Y and
\* depth that RTPT/RTPS return for it under the frame's rotation/translation
\* registers.  GteRtp reads SXY and the low 16 bits of SZ (room.cpp:143-156).
GteRtp(p) == [sx |-> p.sx, sy |-> p.sy, sz |-> p.sz % 65536]

\* g_scratch[i] = v and g_scratch[i] (0-based index into the element list)
WriteScratch(s, i, v) ==
    IF i < Len(s) THEN [s EXCEPT ![i + 1] = v]
    ELSE s \o [k \in 1..(i - Len(s)) |-> ZeroVtx] \o <<v>>
ReadScratch(s, i) == IF i < Len(s) THEN s[i + 1] ELSE ZeroVtx

\* RoomScene::transformVertices: batches of three through RTPT, then the
\* remaining count mod 3 vertices one by one through RTPS.  (Len(s) >= 0 is
\* always true; it has the scratch contents evaluated at every iteration.)
RECURSIVE TransformBatches(_, _, _, _)
TransformBatches(s, pos, count, i) ==
    IF i + 2 < count /\ Len(s) >= 0
    THEN LET s0 == WriteScratch(s, i, GteRtp(pos[i + 1]))
             s1 == WriteScratch(s0, i + 1, GteRtp(pos[i + 2]))
             s2 == WriteScratch(s1, i + 2, GteRtp(pos[i + 3]))
         IN  TransformBatches(s2, pos, count, i + 3)
    ELSE [s |-> s, i |-> i]

RECURSIVE TransformSingles(_, _, _, _)
TransformSingles(s, pos, count, i) ==
    IF i < count /\ Len(s) >= 0
    THEN TransformSingles(WriteScratch(s, i, GteRtp(pos[i + 1])), pos, count, i + 1)
    ELSE s

TransformVertices(s, pos, count) ==
    LET b == TransformBatches(s, pos, count, 0)
    IN  TransformSingles(b.s, pos, count, b.i)

-----------------------------------------------------------------------------
(* Ordering table (psyqo::OrderingTable<OT_SIZE>)                          *)
(* A table is represented by the list of insert(frag, z) calls made since  *)
(* clear(); the library code itself is not part of the repository sources. *)

OtClear == <<>>
\* frag names the inserted fragment: [pool |-> "tris" | "quads", idx |-> slot]
OtInsert(ot, frag, z) == Append(ot, [frag |-> frag, z |-> z])

MaxZ(ot) == CHOOSE m \in {ot[k].z : k \in 1..Len(ot)} :
                \A k \in 1..Len(ot) : ot[k].z <= m
AtBucket(ot, b) == SelectSeq(ot, LAMBDA e : e.z = b)
NotAtBucket(ot, b) == SelectSeq(ot, LAMBDA e : e.z # b)

\* A variant of the drain that links each record at the head of its bucket.
RECURSIVE Reverse(_)
Reverse(s) == IF s = <<>> THEN <<>> ELSE Append(Reverse(Tail(s)), Head(s))
RECURSIVE OtDrainHeadLinked(_)
OtDrainHeadLinked(ot) ==
    IF ot = <<>> THEN <<>>
    ELSE LET m == MaxZ(ot)
         IN  Reverse(AtBucket(ot, m)) \o OtDrainHeadLinked(NotAtBucket(ot, m))

\* The order in which gpu().chain(ot) sends the records: buckets in
\* descending index order; within a bucket in insertion order.
RECURSIVE OtDrain(_)
OtDrain(ot) ==
    IF ot = <<>> THEN <<>>
    ELSE LET m == MaxZ(ot)
         IN  AtBucket(ot, m) \o OtDrain(NotAtBucket(ot, m))

-----------------------------------------------------------------------------
(* Triangle emission: RoomScene::renderChunk and RoomScene::drawLimb       *)

\* A bucket index that scales by OT_SIZE before dividing by 3.
OtIndexScaledFirst(sv0, sv1, sv2) ==
    LET sumZ == sv0.sz + sv1.sz + sv2.sz
    IN  ((sumZ * OT_SIZE) \div 3) \div 4096

\* uint32_t sumZ = sz0 + sz1 + sz2; int32_t otIdx = (sumZ * (OT_SIZE / 3)) >> 12.
\* The depths are 16-bit: sumZ <= 3 * 65535 and sumZ * 341 <= 67042305 < 2^31,
\* so neither the 32-bit product nor the cast to int32_t wraps.
OtIndex(sv0, sv1, sv2) ==
    LET sumZ == sv0.sz + sv1.sz + sv2.sz
    IN  (sumZ * (OT_SIZE \div 3)) \div 4096

Cross(sv0, sv1, sv2) ==
    LET dx0 == sv1.sx - sv0.sx
        dy0 == sv1.sy - sv0.sy
        dx1 == sv2.sx - sv0.sx
        dy1 == sv2.sy - sv0.sy
    IN  dx0 * dy1 - dx1 * dy0

OutOfBounds(sv) == sv.sx < -512 \/ sv.sx > 512 \/ sv.sy < -512 \/ sv.sy > 512

\* Weakened variants of the guards below.
NearRejectAllThree(sv0, sv1, sv2) == sv0.sz = 0 /\ sv1.sz = 0 /\ sv2.sz = 0
OtRejectLowOnly(otIdx) == otIdx <= 0

\* renderChunk's guards
ChunkNearReject(sv0, sv1, sv2) == sv0.sz = 0 \/ sv1.sz = 0 \/ sv2.sz = 0
ChunkBackface(cross) == cross <= 0
ChunkOtReject(otIdx) == otIdx <= 0 \/ otIdx >= OT_SIZE

\* drawLimb's guards
LimbNearReject(sv0, sv1, sv2) == sv0.sz = 0 \/ sv1.sz = 0 \/ sv2.sz = 0
LimbBackface(cross) == cross >= 0
LimbOtReject(otIdx) == otIdx <= 0 \/ otIdx >= OT_SIZE

\* The draw record written to m_tris[m_parity][m_triCount]: the three screen
\* points; `src` remembers the scratch entries the record was built from.
DrawRecord(sv0, sv1, sv2) ==
    [pointA |-> <<sv0.sx, sv0.sy>>, pointB |-> <<sv1.sx, sv1.sy>>,
     pointC |-> <<sv2.sx, sv2.sy>>, src |-> <<sv0, sv1, sv2>>]

\* pool[slot] = rec, the pool being the list of the slots written so far
WriteSlot(pool, slot, rec) ==
    IF slot < Len(pool) THEN [pool EXCEPT ![slot + 1] = rec] ELSE Append(pool, rec)

\* st = [pool, ot, cnt, log]: the frame's record pool, its table, m_triCount
\* and the slots written so far.
Emit(st, sv0, sv1, sv2, otIdx) ==
    [pool |-> WriteSlot(st.pool, st.cnt, DrawRecord(sv0, sv1, sv2)),
     ot   |-> OtInsert(st.ot, [pool |-> "tris", idx |-> st.cnt], otIdx),
     cnt  |-> st.cnt + 1,
     log  |-> Append(st.log, st.cnt)]

\* One iteration of renderChunk's triangle loop.
ChunkTriangle(st, scratch, tri) ==
    LET sv0 == ReadScratch(scratch, tri.v0)
        sv1 == ReadScratch(scratch, tri.v1)
        sv2 == ReadScratch(scratch, tri.v2)
        otIdx == OtIndex(sv0, sv1, sv2)
    IN  IF ChunkNearReject(sv0, sv1, sv2) THEN st
        ELSE IF ChunkBackface(Cross(sv0, sv1, sv2)) THEN st
        ELSE IF OutOfBounds(sv0) \/ OutOfBounds(sv1) \/ OutOfBounds(sv2) THEN st
        ELSE IF ChunkOtReject(otIdx) THEN st
        ELSE Emit(st, sv0, sv1, sv2, otIdx)

\* A pool test that lets one record too many through.
PoolHasRoomLate(cnt) == cnt <= MAX_TRIS

\* The loop condition m_triCount < MAX_TRIS.
PoolHasRoom(cnt) == cnt < MAX_TRIS

\* Iterations lo .. hi - 1 of renderChunk's triangle loop.  The counter never
\* decreases, so leaving the loop when the pool is full is the same as
\* skipping every later iteration; the range is split in halves to keep the
\* evaluation shallow on chunks of a thousand triangles (the first half is
\* evaluated, its counter compared, before the second half starts).
RECURSIVE ChunkTriRange(_, _, _, _, _)
ChunkTriRange(st, scratch, chunk, lo, hi) ==
    IF lo >= hi THEN st
    ELSE IF hi = lo + 1
    THEN IF PoolHasRoom(st.cnt) THEN ChunkTriangle(st, scratch, chunk.tris[lo + 1]) ELSE st
    ELSE LET mid == (lo + hi) \div 2
             left == ChunkTriRange(st, scratch, chunk, lo, mid)
         IN  IF left.cnt >= st.cnt THEN ChunkTriRange(left, scratch, chunk, mid, hi) ELSE left

\* for (t = 0; t < chunk.num_tris && m_triCount < MAX_TRIS; t++)
ChunkTriLoop(st, scratch, chunk, t) == ChunkTriRange(st, scratch, chunk, t, chunk.num_tris)

\* One iteration of drawLimb's triangle loop.
LimbTriangle(st, scratch, tri) ==
    LET sv0 == ReadScratch(scratch, tri.v0)
        sv1 == ReadScratch(scratch, tri.v1)
        sv2 == ReadScratch(scratch, tri.v2)
        otIdx == OtIndex(sv0, sv1, sv2)
    IN  IF LimbNearReject(sv0, sv1, sv2) THEN st
        ELSE IF LimbBackface(Cross(sv0, sv1, sv2)) THEN st
        ELSE IF OutOfBounds(sv0) \/ OutOfBounds(sv1) \/ OutOfBounds(sv2) THEN st
        ELSE IF LimbOtReject(otIdx) THEN st
        ELSE Emit(st, sv0, sv1, sv2, otIdx)

\* Iterations lo .. hi - 1 of drawLimb's triangle loop.
RECURSIVE LimbTriRange(_, _, _, _, _)
LimbTriRange(st, scratch, limb, lo, hi) ==
    IF lo >= hi THEN st
    ELSE IF hi = lo + 1
    THEN IF PoolHasRoom(st.cnt) THEN LimbTriangle(st, scratch, limb.tris[lo + 1]) ELSE st
    ELSE LET mid == (lo + hi) \div 2
             left == LimbTriRange(st, scratch, limb, lo, mid)
         IN  IF left.cnt >= st.cnt THEN LimbTriRange(left, scratch, limb, mid, hi) ELSE left

\* for (t = 0; t < limb.num_tris && m_triCount < MAX_TRIS; t++)
LimbTriLoop(st, scratch, limb, t) == LimbTriRange(st, scratch, limb, t, limb.num_tris)

\* A drawLimb that skips only a limb with neither vertices nor triangles.
DrawLimbSkipsEmptyOnly(rs, limb) ==
    IF limb.num_verts = 0 /\ limb.num_tris = 0 THEN rs
    ELSE LET sc == TransformVertices(rs.scratch, limb.pos, limb.num_verts)
         IN  [st |-> LimbTriLoop(rs.st, sc, limb, 0), scratch |-> sc]

\* RoomScene::drawLimb for one limb; rs = [st, scratch].
DrawLimb(rs, limb) ==
    IF limb.num_verts = 0 \/ limb.num_tris = 0 THEN rs
    ELSE LET sc == TransformVertices(rs.scratch, limb.pos, limb.num_verts)
         IN  [st |-> LimbTriLoop(rs.st, sc, limb, 0), scratch |-> sc]

\* for (i = 0; i < num_limbs; i++) drawLimb(i, ...)
RECURSIVE DrawLimbs(_, _, _)
DrawLimbs(rs, limbs, i) ==
    IF i < Len(limbs) THEN DrawLimbs(DrawLimb(rs, limbs[i + 1]), limbs, i + 1) ELSE rs

\* An advance that never wraps or clamps.
AdvanceUnbounded(frame, ad) == frame + 1

\* An advance that clamps one past the last frame.
AdvanceClampsAtCount(frame, ad) ==
    LET f == frame + 1
    IN  IF f >= ad.frame_count
        THEN (IF ad.flags % 2 = 1 THEN 0 ELSE ad.frame_count)
        ELSE f

\* An advance that wraps one frame late.
AdvanceWrapsLate(frame, ad) ==
    LET f == frame + 1
    IN  IF f > ad.frame_count
        THEN (IF ad.flags % 2 = 1 THEN 0 ELSE ad.frame_count - 1)
        ELSE f

\* The animation advance at the top of renderSkeleton.
AdvanceFrame(frame, ad) ==
    LET f == frame + 1
    IN  IF f >= ad.frame_count
        THEN (IF ad.flags % 2 = 1 THEN 0 ELSE ad.frame_count - 1)
        ELSE f

-----------------------------------------------------------------------------
(* Bone hierarchy: eulerZYX, computeBones, computeBoneRecurse (skeleton.cpp) *)

\* C++ integer division (truncates toward zero).
TruncDiv(a, b) == IF a >= 0 THEN a \div b ELSE -((-a) \div b)

\* ootAngle: s16 binary angle / 32, as an angle of 2048 units per turn.
OotAngle(raw) == TruncDiv(raw, 32)

\* 1.0 in the 20.12 fixed point of psyqo::Matrix33
ONE == 4096

\* psyqo::Trig at the quarter turns, where sine and cosine are 0 or +-1.0.
TrigCos(angle) ==
    LET a == angle % 2048
    IN  IF a = 0 THEN ONE ELSE IF a = 1024 THEN -ONE ELSE 0

TrigSin(angle) ==
    LET a == angle % 2048
    IN  IF a = 512 THEN ONE ELSE IF a = 1536 THEN -ONE ELSE 0

\* psyqo::SoftMath::generateRotationMatrix33 about one axis; a matrix is its
\* three rows vs[0..2] of raw x, y, z.
RotationX(angle) ==
    <<<<ONE, 0, 0>>,
      <<0, TrigCos(angle), -TrigSin(angle)>>,
      <<0, TrigSin(angle), TrigCos(angle)>>>>

RotationY(angle) ==
    <<<<TrigCos(angle), 0, TrigSin(angle)>>,
      <<0, ONE, 0>>,
      <<-TrigSin(angle), 0, TrigCos(angle)>>>>

RotationZ(angle) ==
    <<<<TrigCos(angle), -TrigSin(angle), 0>>,
      <<TrigSin(angle), TrigCos(angle), 0>>,
      <<0, 0, ONE>>>>

Identity33 == <<<<ONE, 0, 0>>, <<0, ONE, 0>>, <<0, 0, ONE>>>>

\* psyqo::SoftMath::multiplyMatrix33: fixed-point product of two matrices.
MultiplyMatrix33(m1, m2) ==
    [r \in 1..3 |->
        [c \in 1..3 |->
            (m1[r][1] * m2[1][c]) \div ONE + (m1[r][2] * m2[2][c]) \div ONE
            + (m1[r][3] * m2[3][c]) \div ONE]]

\* eulerZYX(rz, ry, rx) = Rz * Ry * Rx
EulerZYX(rz, ry, rx) ==
    MultiplyMatrix33(MultiplyMatrix33(RotationZ(OotAngle(rz)), RotationY(OotAngle(ry))),
                     RotationX(OotAngle(rx)))

\* SKM::frameLimbRot: the triple of limb limbIdx is stored as {x, y, z}.
FrameLimbRot(frame, limbIdx) ==
    [rx |-> frame.rot[limbIdx + 1][1], ry |-> frame.rot[limbIdx + 1][2],
     rz |-> frame.rot[limbIdx + 1][3]]

\* A bone entry nothing has been written to.
NoBone == [set |-> FALSE]

\* The pose held by a bone entry, without the bookkeeping fields.
PoseOf(b) == [rot |-> b.rot, tx |-> b.tx, ty |-> b.ty, tz |-> b.tz]

\* A root pose that adds the root limb's joint offset to the translation.
RootBoneWithJoint(frame, limb0) ==
    LET r == FrameLimbRot(frame, 0)
    IN  [set |-> TRUE, rot |-> EulerZYX(r.rz, r.ry, r.rx),
         tx |-> frame.root[1] + limb0.joint[1],
         ty |-> frame.root[2] + limb0.joint[2],
         tz |-> frame.root[3] + limb0.joint[3],
         from |-> NoBone, via |-> "root"]

\* computeBones: m_bones[0] from the keyframe's root translation and limb 0's
\* rotation.
RootBone(frame, limb0) ==
    LET r == FrameLimbRot(frame, 0)
    IN  [set |-> TRUE, rot |-> EulerZYX(r.rz, r.ry, r.rx),
         tx |-> frame.root[1], ty |-> frame.root[2], tz |-> frame.root[3],
         from |-> NoBone, via |-> "root"]

\* computeBoneRecurse: the pose of a limb under a parent pose.  `from` and
\* `via` remember the parent pose that was passed in and the link followed.
ChildBone(parent, limb, frame, limbIdx, via) ==
    LET r == FrameLimbRot(frame, limbIdx)
        pr == parent.rot
        j == limb.joint
    IN  [set |-> TRUE,
         rot |-> MultiplyMatrix33(pr, EulerZYX(r.rz, r.ry, r.rx)),
         tx |-> parent.tx + (pr[1][1] * j[1] + pr[1][2] * j[2] + pr[1][3] * j[3]) \div 4096,
         ty |-> parent.ty + (pr[2][1] * j[1] + pr[2][2] * j[2] + pr[2][3] * j[3]) \div 4096,
         tz |-> parent.tz + (pr[3][1] * j[1] + pr[3][2] * j[2] + pr[3][3] * j[3]) \div 4096,
         from |-> PoseOf(parent), via |-> via]

\* A sibling recursion that passes on the limb's own pose.
SiblingParentOwn(parent, own) == own

\* The pose handed to the sibling recursion: the caller's parent.
SiblingParent(parent, own) == parent

\* computeBoneRecurse(limbIdx, parent, frame): child first, then sibling.
RECURSIVE ComputeBoneRecurse(_, _, _, _, _, _)
ComputeBoneRecurse(bones, ls, limbIdx, parent, frame, via) ==
    LET limb == ls[limbIdx + 1]
        b1 == [bones EXCEPT ![limbIdx] = ChildBone(parent, limb, frame, limbIdx, via)]
        b2 == IF limb.child # NO_LINK
              THEN ComputeBoneRecurse(b1, ls, limb.child, b1[limbIdx], frame, "child")
              ELSE b1
    IN  IF limb.sibling # NO_LINK
        THEN ComputeBoneRecurse(b2, ls, limb.sibling,
                                SiblingParent(parent, b2[limbIdx]), frame, "sibling")
        ELSE b2

\* computeBones(frame)
ComputeBones(bones, ls, frame) ==
    LET b0 == [bones EXCEPT ![0] = RootBone(frame, ls[1])]
    IN  IF ls[1].child # NO_LINK
        THEN ComputeBoneRecurse(b0, ls, ls[1].child, b0[0], frame, "child")
        ELSE b0

\* What lies behind the last frame of an animation (the playback never
\* addresses it): some frame-sized block of the blob.
PastEndFrame == [root |-> <<0, 0, 0>>, rot |-> [i \in 1..MAX_LIMBS |-> <<0, 0, 0>>]]

\* SKM::animFrame(skm, animIdx, frame): the keyframe of an animation.
AnimFrame(skm, animIdx, frame) ==
    LET fr == skm.anims[animIdx + 1].frames
    IN  IF frame < Len(fr) THEN fr[frame + 1] ELSE PastEndFrame

\* drawLimb for the limbs below n only.
RECURSIVE DrawLimbsTo(_, _, _, _)
DrawLimbsTo(rs, limbs, i, n) ==
    IF i < n THEN DrawLimbsTo(DrawLimb(rs, limbs[i + 1]), limbs, i + 1, n) ELSE rs

\* m_triCount and the table length before limb 0 (entry 1) and after the
\* drawLimb of each limb i (entry i + 2).
LimbTrace(rs, limbs) ==
    [k \in 1..(Len(limbs) + 1) |->
        LET r == DrawLimbsTo(rs, limbs, 0, k - 1)
        IN  [cnt |-> r.st.cnt, inserts |-> Len(r.st.ot)]]

-----------------------------------------------------------------------------
(* Meshes the frames are run on                                            *)

T012 == [v0 |-> 0, v1 |-> 1, v2 |-> 2, tex_id |-> 0]
T021 == [v0 |-> 0, v1 |-> 2, v2 |-> 1, tex_id |-> 0]

\* Post-perspective depths: near plane, a sum that maps to bucket 0, a mid
\* depth, and a depth whose triple sum maps to bucket OT_SIZE exactly.
Depths == {0, 4, 100, 4101}
Corner(i) == IF i = 0 THEN <<0, 0>> ELSE IF i = 1 THEN <<10, 0>> ELSE <<0, 10>>
OffScreen == <<600, 0>>
VertexChoices(i) ==
    {[sx |-> xy[1], sy |-> xy[2], sz |-> z] : xy \in {Corner(i), OffScreen}, z \in Depths}

\* Triangle lists of alternating winding, of 1..MaxChunkTris triangles.
AltTris(first, n) ==
    [k \in 1..n |-> IF (k % 2 = 1) = first THEN T012 ELSE T021]
TriLists == {AltTris(f, n) : f \in BOOLEAN, n \in 1..MaxChunkTris}

Part(pos, tris) ==
    [num_verts |-> Len(pos), num_tris |-> Len(tris), pos |-> pos, tris |-> tris]
FreeParts ==
    {Part(<<a, b, c>>, tl) : a \in VertexChoices(0), b \in VertexChoices(1),
                             c \in VertexChoices(2), tl \in TriLists}
V(i, z) == [sx |-> Corner(i)[1], sy |-> Corner(i)[2], sz |-> z]
EmptyPart == Part(<<>>, <<>>)
\* a chunk of two front-facing triangles at depth 100, and its limb twin
TwinChunk == Part(<<V(0, 100), V(1, 100), V(2, 100)>>, <<T012, T012>>)
\* a front-facing triangle whose three depths are the largest 16-bit value
FarChunk  == Part(<<V(0, 65535), V(1, 65535), V(2, 65535)>>, <<T012>>)
TwinLimb  == Part(<<V(0, 100), V(1, 100), V(2, 100)>>, <<T021, T021>>)

OneAnim == <<[frame_count |-> 1, flags |-> 0]>>
Room(chunks) == [loaded |-> TRUE, chunks |-> chunks, num_textures |-> 2]
Skel(limbs, anims) == [loaded |-> TRUE, limbs |-> limbs, anims |-> anims]
NoSkel == [loaded |-> FALSE, limbs |-> <<>>, anims |-> <<>>]
NoRoom == [loaded |-> FALSE, chunks |-> <<>>, num_textures |-> 0]

\* A limb: SKM::LimbDesc (joint offset, child and sibling links, counts) with
\* the mesh sub-arrays of a part.
Limb(part, joint, child, sibling) ==
    [num_verts |-> part.num_verts, num_tris |-> part.num_tris,
     pos |-> part.pos, tris |-> part.tris,
     joint |-> joint, child |-> child, sibling |-> sibling]

\* Limbs linked as a chain: limb i is the only child of limb i - 1.
ChainLimbs(parts) ==
    [i \in 1..Len(parts) |->
        Limb(parts[i], <<0, 0, 0>>, IF i < Len(parts) THEN i ELSE NO_LINK, NO_LINK)]

\* A keyframe: root translation and one stored {x, y, z} rotation per limb.
Keyframe(root, rots) == [root |-> root, rot |-> rots]

StillFrame(numLimbs) == Keyframe(<<10, 20, 30>>, [i \in 1..numLimbs |-> <<0, 0, 0>>])

\* An animation descriptor together with its frame data.
WithFrames(ad, numLimbs) ==
    [frame_count |-> ad.frame_count, flags |-> ad.flags,
     frames |-> [k \in 1..ad.frame_count |-> StillFrame(numLimbs)]]

\* A skeleton of chained limbs whose animations hold still frames.
Posed(parts, anims) ==
    Skel(ChainLimbs(parts), [a \in 1..Len(anims) |-> WithFrames(anims[a], Len(parts))])

RenderScenes ==
    {<<Room(<<p>>), NoSkel>> : p \in FreeParts}
    \cup {<<Room(<<TwinChunk, p>>), NoSkel>> : p \in FreeParts}
    \cup {<<Room(<<EmptyPart, TwinChunk, FarChunk>>),
             Posed(<<p, EmptyPart, TwinLimb>>, OneAnim)>> : p \in FreeParts}

-----------------------------------------------------------------------------
(* Constructed state of each subsystem                                     *)

\* The scene's members after construction.
SceneInit ==
    /\ pc = "idle" /\ ci = 0 /\ gpuParity = 0
    /\ m_parity = 0 /\ m_triCount = 0
    /\ m_ots = [p \in {0, 1} |-> OtClear]
    /\ m_tris = [p \in {0, 1} |-> <<>>]
    /\ chained = [p \in {0, 1} |-> <<>>]
    /\ m_bones = [i \in 0..(MAX_LIMBS - 1) |-> NoBone]
    /\ limbTrace = <<>> /\ frameWrites = <<>>
    /\ drained = [parity |-> -1, ot |-> <<>>, tris |-> <<>>]

RenderInit == SceneInit /\ g_scratch = <<>>

AllocInit ==
    /\ m_numSlots = 0 /\ m_slots = <<>>
    /\ m_texCurX = TEX_X0 /\ m_texCurY = TEX_Y0 /\ m_texRowH = 0
    /\ m_clutCurX = 0 /\ m_clutCurY = CLUT_Y0
    /\ lastRet = -2 /\ reqs = <<>> /\ phase = "boot"
    /\ recorded = [warm |-> 0, reqs |-> <<>>, slots |-> <<>>, numSlots |-> 0]

AnimInit ==
    /\ m_animIdx = 0 /\ m_animFrame = 0 /\ m_animPaused = TRUE
    /\ animTrace = <<0>>

MeshInit ==
    /\ cacheBuilt = FALSE /\ offsets = <<>>
    /\ query = [limb |-> -1] /\ prmQuery = [chunk |-> 0]

\* An empty psyqo::Buffer: size 0, data() == nullptr.
NoBuffer == [size |-> 0, mesh |-> [loaded |-> FALSE], file |-> -1]

LoadInit ==
    /\ loadPc = "boot"
    /\ m_roomBuf = NoBuffer /\ m_skelBuf = NoBuffer
    /\ m_loading = FALSE /\ m_needUpload = FALSE /\ m_skelLoaded = FALSE
    /\ m_skelTexBase = 0 /\ uploaded = <<>>
    /\ m_roomIdx = 0 /\ m_skelPos = <<0, 0, 0>> /\ pending = <<>>

\* No call of transformVertices on record.
NoCall == [count |-> 0, pos |-> <<>>, before |-> <<>>, ops |-> <<>>, done |-> TRUE]

XformInit == xf = NoCall

\* No textured triangle on record.
NoTri == [slot |-> -1, stored |-> <<>>, uv |-> <<>>]

\* static Channel channels[8] (zero-initialised); music_pattern = -1,
\* music_loop_start = -1, sfx_next_voice = 0.
StaticChannel ==
    [sfx_id |-> 0, note_pos |-> 0, tick |-> 0, vibrato_phase |-> 0, keyed_on |-> FALSE]

NoMusic == [patterns |-> <<>>, sfx |-> <<>>]

AudioStatics ==
    /\ channels = [v \in 0..7 |-> StaticChannel]
    /\ spuKeyed = {}
    /\ music_pattern = -1 /\ music_loop_start = -1 /\ sfx_next_voice = 0
    /\ audioReady = FALSE

\* Celeste platform layer constants (celeste/main.cpp)
P8_OT_SIZE  == 512
MAX_SPRITES == 600
MAX_RECTS   == 160
MAX_LINES   == 32
MAX_TPAGES  == 8

\* RenderState g_rs: the fields the ordering-table inserts depend on.  A
\* global with static storage, zero before the first frame.
RenderStateZero ==
    [spriteIdx |-> 0, rectIdx |-> 0, lineIdx |-> 0, tpageIdx |-> 0, zCounter |-> 0,
     tpageIsFont |-> FALSE]

P8Init ==
    /\ g_rs = RenderStateZero /\ p8pc = "idle" /\ p8ins = <<>>
    /\ p8low = P8_OT_SIZE /\ p8others = 0

ExtInit == XformInit /\ texTri = NoTri /\ AudioStatics /\ musicData = NoMusic /\ P8Init

-----------------------------------------------------------------------------
(* RoomScene::frame                                                        *)

\* A frame that always builds into buffer 0.
FrameParityFixed(g) == 0

\* m_parity = gpu().getParity()
FrameParity(g) == g

\* Reset per-frame state: parity, triangle counter, ot.clear().
BeginFrame ==
    /\ pc = "idle"
    /\ m_parity' = FrameParity(gpuParity)
    /\ m_triCount' = 0
    /\ m_ots' = [m_ots EXCEPT ![FrameParity(gpuParity)] = OtClear]
    /\ frameWrites' = <<>>
    /\ pc' = "chunks" /\ ci' = 0
    /\ UNCHANGED <<gpuParity, m_tris, g_scratch, chained, m_prm, m_skm>>
    /\ UNCHANGED <<m_bones, limbTrace, drained>>
    /\ UNCHANGED <<allocVars, animVars, meshVars, loadVars, extVars>>

\* renderChunk(cdescs[ci]) inside the chunk loop of frame().
RenderChunk ==
    /\ pc = "chunks" /\ ci < Len(m_prm.chunks)
    /\ LET chunk == m_prm.chunks[ci + 1]
           st0 == [pool |-> m_tris[m_parity], ot |-> m_ots[m_parity], cnt |-> m_triCount,
                   log |-> frameWrites]
       IN  IF chunk.num_verts = 0 \/ chunk.num_tris = 0
           THEN UNCHANGED <<g_scratch, m_tris, m_ots, m_triCount, frameWrites>>
           ELSE LET sc == TransformVertices(g_scratch, chunk.pos, chunk.num_verts)
                    st == ChunkTriLoop(st0, sc, chunk, 0)
                IN  /\ g_scratch' = sc
                    /\ m_tris' = [m_tris EXCEPT ![m_parity] = st.pool]
                    /\ m_ots' = [m_ots EXCEPT ![m_parity] = st.ot]
                    /\ m_triCount' = st.cnt
                    /\ frameWrites' = st.log
    /\ ci' = ci + 1
    /\ UNCHANGED <<pc, gpuParity, m_parity, chained, m_prm, m_skm>>
    /\ UNCHANGED <<m_bones, limbTrace, drained>>
    /\ UNCHANGED <<allocVars, animVars, meshVars, loadVars, extVars>>

\* renderSkeleton, called once the chunk loop is over: animation advance,
\* then drawLimb for every limb.
RenderSkeleton ==
    /\ pc = "chunks" /\ ci = Len(m_prm.chunks)
    /\ IF ~m_skm.loaded
       THEN UNCHANGED <<g_scratch, m_tris, m_ots, m_triCount, m_animFrame, animTrace,
                        m_bones, limbTrace, frameWrites>>
       ELSE LET rs0 == [st |-> [pool |-> m_tris[m_parity], ot |-> m_ots[m_parity],
                                cnt |-> m_triCount, log |-> frameWrites],
                        scratch |-> g_scratch]
                rs == DrawLimbs(rs0, m_skm.limbs, 0)
                f == IF m_animPaused THEN m_animFrame
                     ELSE AdvanceFrame(m_animFrame, m_skm.anims[m_animIdx + 1])
            IN  /\ m_animFrame' = f
                /\ m_bones' = ComputeBones(m_bones, m_skm.limbs,
                                           AnimFrame(m_skm, m_animIdx, f))
                /\ limbTrace' = LimbTrace(rs0, m_skm.limbs)
                /\ frameWrites' = rs.st.log
                /\ animTrace' = IF m_animPaused \/ Len(animTrace) >= MaxTrace
                                THEN animTrace ELSE Append(animTrace, f)
                /\ g_scratch' = rs.scratch
                /\ m_tris' = [m_tris EXCEPT ![m_parity] = rs.st.pool]
                /\ m_ots' = [m_ots EXCEPT ![m_parity] = rs.st.ot]
                /\ m_triCount' = rs.st.cnt
    /\ pc' = "submit"
    /\ UNCHANGED <<ci, gpuParity, m_parity, chained, m_prm, m_skm, drained>>
    /\ UNCHANGED <<allocVars, m_animIdx, m_animPaused, meshVars, loadVars, extVars>>

\* gpu().chain(clear); gpu().chain(ot): the table is handed to the display,
\* which drains it; the GPU's parity flips for the next frame.
Submit ==
    /\ pc = "submit"
    /\ chained' = [chained EXCEPT ![m_parity] = OtDrain(m_ots[m_parity])]
    /\ drained' = [parity |-> m_parity, ot |-> m_ots[m_parity], tris |-> m_tris[m_parity]]
    /\ gpuParity' = 1 - gpuParity
    /\ pc' = "idle"
    /\ UNCHANGED <<ci, m_parity, m_triCount, m_ots, m_tris, g_scratch, m_prm, m_skm>>
    /\ UNCHANGED <<m_bones, limbTrace, frameWrites>>
    /\ UNCHANGED <<allocVars, animVars, meshVars, loadVars, extVars>>

\* The quads of renderDebugGrid: quad i of m_debugQuads[m_parity] at bucket 1.
RECURSIVE DebugQuads(_, _, _)
DebugQuads(ot, numTex, i) ==
    IF i < numTex
    THEN DebugQuads(OtInsert(ot, [pool |-> "quads", idx |-> i], 1), numTex, i + 1)
    ELSE ot

\* RoomScene::renderDebugGrid: a whole frame of the debug texture view.
RenderDebugGrid ==
    /\ pc = "idle"
    /\ LET ot == IF m_prm.loaded
                 THEN DebugQuads(OtClear, Min2(m_prm.num_textures, MAX_TEXTURES), 0)
                 ELSE OtClear
       IN  /\ m_parity' = gpuParity
           /\ m_ots' = [m_ots EXCEPT ![gpuParity] = ot]
           /\ chained' = [chained EXCEPT ![gpuParity] = OtDrain(ot)]
           /\ drained' = [parity |-> gpuParity, ot |-> ot, tris |-> m_tris[gpuParity]]
    /\ gpuParity' = 1 - gpuParity
    /\ UNCHANGED <<pc, ci, m_triCount, m_tris, g_scratch, m_prm, m_skm>>
    /\ UNCHANGED <<m_bones, limbTrace, frameWrites>>
    /\ UNCHANGED <<allocVars, animVars, meshVars, loadVars, extVars>>

Init ==
    /\ RenderInit /\ AllocInit /\ AnimInit /\ MeshInit /\ LoadInit /\ ExtInit
    /\ \E sc \in RenderScenes : m_prm = sc[1] /\ m_skm = sc[2]

Next == BeginFrame \/ RenderChunk \/ RenderSkeleton \/ Submit \/ RenderDebugGrid

Spec == Init /\ [][Next]_vars

-----------------------------------------------------------------------------
(* Properties of the frame pipeline                                        *)

\* The table of parity p is complete and has been handed to the display.
Settled(p) == pc = "idle" \/ m_parity # p

PosIn(ot, e) == CHOOSE k \in 1..Len(ot) : ot[k] = e

\* C1: after a frame's inserts and the full drain, the records come out with
\* non-increasing bucket indices, records of one bucket in the order in which
\* they were inserted, and the drain holds exactly the inserted records.
C1_DrainOrder ==
    \A p \in {0, 1} :
        Settled(p) =>
            LET d == chained[p]
                ot == m_ots[p]
            IN  /\ Len(d) = Len(ot)
                /\ \A i \in 1..Len(d) : \E k \in 1..Len(ot) : ot[k] = d[i]
                /\ \A i, j \in 1..Len(d) :
                       i < j => /\ d[i].z >= d[j].z
                                /\ d[i].z = d[j].z => PosIn(ot, d[i]) < PosIn(ot, d[j])

\* C1 witness: a drained frame of at least three records, two of them in one
\* bucket, whose drain order differs from the insertion order.
C1_Witness ==
    \E p \in {0, 1} :
        /\ Settled(p) /\ Len(chained[p]) >= 3 /\ chained[p] # m_ots[p]
        /\ \E i, j \in 1..Len(chained[p]) : i < j /\ chained[p][i].z = chained[p][j].z

\* Number of triangles of a mesh partition none of whose vertices has depth 0.
DepthOf(part, v) == GteRtp(part.pos[v + 1]).sz
NearOk(part, tri) ==
    DepthOf(part, tri.v0) # 0 /\ DepthOf(part, tri.v1) # 0 /\ DepthOf(part, tri.v2) # 0
NearPassing(part) == Cardinality({t \in 1..part.num_tris : NearOk(part, part.tris[t])})
RECURSIVE SumNearPassing(_, _)
SumNearPassing(parts, n) ==
    IF n = 0 THEN 0 ELSE NearPassing(parts[n]) + SumNearPassing(parts, n - 1)

\* C2: a triangle with a vertex of depth 0 yields no draw record and no insert:
\* no record in a pool was built from a depth-0 vertex, and the frame has
\* emitted at most as many records as it has processed triangles whose three
\* depths are all non-zero, one insert per record.
C2_NearPlaneReject ==
    /\ \A p \in {0, 1} : \A k \in 1..Len(m_tris[p]) :
           \A v \in 1..3 : m_tris[p][k].src[v].sz # 0
    /\ pc \in {"chunks", "submit"} =>
           /\ Len(m_ots[m_parity]) = m_triCount
           /\ m_triCount <= SumNearPassing(m_prm.chunks, ci)
                            + (IF pc = "submit"
                               THEN SumNearPassing(m_skm.limbs, Len(m_skm.limbs)) ELSE 0)

\* C2 witness: renderChunk has processed a front-facing in-bounds triangle with
\* depths (100, 0, 100) and emitted nothing.
C2_Witness ==
    /\ pc = "chunks" /\ ci = 1 /\ Len(m_prm.chunks) = 1
    /\ m_prm.chunks[1].pos = <<V(0, 100), V(1, 0), V(2, 100)>>
    /\ m_prm.chunks[1].tris = <<T012>>
    /\ m_triCount = 0 /\ m_ots[m_parity] = <<>>

\* C3: every insert made by renderChunk, drawLimb and renderDebugGrid uses a
\* bucket index strictly between 0 and OT_SIZE.
C3_BucketRange ==
    \A p \in {0, 1} : \A k \in 1..Len(m_ots[p]) :
        0 < m_ots[p][k].z /\ m_ots[p][k].z < OT_SIZE

\* C3 witness: after two inserts, renderChunk has processed a visible triangle
\* whose computed index is exactly OT_SIZE and has not inserted it.
C3_Witness ==
    /\ pc = "chunks" /\ ci = 2 /\ Len(m_prm.chunks) = 2
    /\ m_prm.chunks[2].pos = <<V(0, 4101), V(1, 4101), V(2, 4101)>>
    /\ m_prm.chunks[2].tris = <<T012>>
    /\ OtIndex(V(0, 4101), V(1, 4101), V(2, 4101)) = OT_SIZE
    /\ Len(m_ots[m_parity]) = 2 /\ m_triCount = 2

-----------------------------------------------------------------------------
(* VramAlloc::Allocator (vram_alloc.h)                                     *)

\* static_cast<int16_t>(x)
Int16(x) == ((x + 32768) % 65536) - 32768

\* static_cast<uint8_t>(x)
UInt8(x) == x % 256

\* The allocator object as one record.
AllocatorState ==
    [numSlots |-> m_numSlots, slots |-> m_slots,
     texCurX |-> m_texCurX, texCurY |-> m_texCurY, texRowH |-> m_texRowH,
     clutCurX |-> m_clutCurX, clutCurY |-> m_clutCurY]

\* The cursors of an allocator record (the slot array left out).
Cursor(a) ==
    [numSlots |-> a.numSlots,
     texCurX |-> a.texCurX, texCurY |-> a.texCurY, texRowH |-> a.texRowH,
     clutCurX |-> a.clutCurX, clutCurY |-> a.clutCurY]

\* A reset that forgets the palette cursor.
ResetKeepsClutCursor(a) ==
    [a EXCEPT !.numSlots = 0, !.texCurX = TEX_X0, !.texCurY = TEX_Y0, !.texRowH = 0]

\* reset(): the slot array keeps its old contents, only the count is cleared.
Reset(a) ==
    [a EXCEPT !.numSlots = 0,
              !.texCurX = TEX_X0, !.texCurY = TEX_Y0, !.texRowH = 0,
              !.clutCurX = 0, !.clutCurY = CLUT_Y0]

\* vw = (format == 0) ? texel_w / 4 : texel_w / 2
VramWidth(texel_w, format) == IF format = 0 THEN texel_w \div 4 ELSE texel_w \div 2

\* page_span = (format == 0) ? 64 : 128
PageSpan(format) == IF format = 0 THEN 64 ELSE 128

\* A fit test that looks at the region's right edge only.
FitsRegionOnly(x, vw, page_span) == x + vw <= TEX_X1

\* fitsCurrent lambda
FitsCurrent(x, vw, page_span) == (x % 64) + vw <= page_span /\ x + vw <= TEX_X1

\* cw = (num_clut_colors + 15) & ~15
ClutWidth(num_clut_colors) == ((num_clut_colors + 15) \div 16) * 16

\* The slot fields written on success (vram_alloc.h:108-135).
MakeSlot(req, vx, vy, vw, vh, cx, cy, cw) ==
    [vram_x |-> vx, vram_y |-> vy, vram_w |-> vw, vram_h |-> vh,
     clut_x |-> cx, clut_y |-> cy, clut_w |-> cw,
     info |-> [tpage |-> [pageX |-> vx \div 64, pageY |-> vy \div 256,
                          bits |-> IF req.format = 0 THEN 4 ELSE 8],
               u_off |-> IF req.format = 0 THEN UInt8((vx % 64) * 4)
                                           ELSE UInt8((vx % 64) * 2),
               v_off |-> UInt8(vy % 256),
               clut  |-> [x |-> cx \div 16, y |-> cy],
               u_mask |-> UInt8(req.texel_w - 1),
               v_mask |-> UInt8(req.texel_h - 1)]]

\* A row wrap that returns to the left edge without moving down.
PlaceCursorSameRow(a, vw, page_span) ==
    IF FitsCurrent(a.texCurX, vw, page_span) THEN a
    ELSE LET next == Int16(((a.texCurX + 63) \div 64) * 64)
         IN  IF FitsCurrent(next, vw, page_span)
             THEN [a EXCEPT !.texCurX = next]
             ELSE [a EXCEPT !.texCurX = TEX_X0, !.texRowH = 0]

\* The texture cursor after the page advance / row wrap of alloc().
PlaceCursor(a, vw, page_span) ==
    IF FitsCurrent(a.texCurX, vw, page_span) THEN a
    ELSE LET next == Int16(((a.texCurX + 63) \div 64) * 64)
         IN  IF FitsCurrent(next, vw, page_span)
             THEN [a EXCEPT !.texCurX = next]
             ELSE [a EXCEPT !.texCurY = Int16(a.texCurY + a.texRowH),
                            !.texCurX = TEX_X0, !.texRowH = 0]

\* The palette cursor after the row advance of alloc().
PlaceClut(a, cw) ==
    IF a.clutCurX + cw > CLUT_X1
    THEN [a EXCEPT !.clutCurY = Int16(a.clutCurY + 1), !.clutCurX = 0]
    ELSE a

\* alloc(texel_w, texel_h, format, num_clut_colors): the allocator after the
\* call and the value returned.  The cursors moved before a failing test stay
\* moved.
Alloc(a, req) ==
    IF a.numSlots >= MAX_TEXTURES THEN [a |-> a, ret |-> -1]
    ELSE
    LET vw == Int16(VramWidth(req.texel_w, req.format))
        vh == Int16(req.texel_h)
        a1 == PlaceCursor(a, vw, PageSpan(req.format))
    IN  IF a1.texCurY + vh > TEX_Y1 THEN [a |-> a1, ret |-> -1]
        ELSE
        LET vx == a1.texCurX
            vy == a1.texCurY
            a2 == [a1 EXCEPT !.texCurX = Int16(vx + vw),
                             !.texRowH = Max2(a1.texRowH, vh)]
            cw == Int16(ClutWidth(req.num_clut_colors))
            a3 == PlaceClut(a2, cw)
        IN  IF a3.clutCurY >= CLUT_Y1 THEN [a |-> a3, ret |-> -1]
            ELSE
            LET cx == a3.clutCurX
                cy == a3.clutCurY
                s  == MakeSlot(req, vx, vy, vw, vh, cx, cy, cw)
            IN  [a |-> [a3 EXCEPT !.clutCurX = Int16(cx + cw),
                                  !.slots = WriteSlot(a3.slots, a3.numSlots, s),
                                  !.numSlots = a3.numSlots + 1],
                 ret |-> a3.numSlots]

\* Store an allocator record back into the member variables.
SetAllocator(a) ==
    /\ m_numSlots' = a.numSlots /\ m_slots' = a.slots
    /\ m_texCurX' = a.texCurX /\ m_texCurY' = a.texCurY /\ m_texRowH' = a.texRowH
    /\ m_clutCurX' = a.clutCurX /\ m_clutCurY' = a.clutCurY

\* Texture requests: [texel_w, texel_h, format (0 = 4-bit, 1 = 8-bit), colours].
Tex(w, h, f, n) == [texel_w |-> w, texel_h |-> h, format |-> f, num_clut_colors |-> n]

Textures ==
    { Tex(64, 64, 0, 16),      \* 16 px wide: leaves the cursor inside a page
      Tex(256, 128, 0, 16),    \* a full 4-bit page
      Tex(64, 64, 1, 256),     \* 32 px wide, 8-bit
      Tex(256, 256, 1, 256),   \* a full 8-bit page, more than half the region tall
      Tex(512, 256, 0, 16),    \* wider than a 4-bit page
      Tex(4096, 16, 0, 16) }   \* wider than the whole pixel region

\* Scenario driving the allocator:
\*   "boot"   calls on the constructed allocator: MaxAllocs free requests, then
\*            the last request repeated up to MaxCalls calls in all;
\*   "record" after a first reset(): up to MaxRecord free requests;
\*   "replay" after a second reset(): the recorded requests again, in order.
NextRequests ==
    CASE phase = "boot" ->
            IF Len(reqs) < MaxAllocs THEN Textures
            ELSE IF Len(reqs) < MaxCalls THEN {reqs[Len(reqs)].req} ELSE {}
      [] phase = "record" ->
            IF Len(reqs) < MaxRecord THEN Textures ELSE {}
      [] OTHER ->
            IF Len(reqs) < Len(recorded.reqs)
            THEN {recorded.reqs[Len(reqs) + 1].req} ELSE {}

AllocCall ==
    /\ \E req \in NextRequests :
          LET r == Alloc(AllocatorState, req)
          IN  /\ SetAllocator(r.a)
              /\ lastRet' = r.ret
              /\ reqs' = Append(reqs, [req |-> req, ret |-> r.ret,
                                       pre |-> Cursor(AllocatorState),
                                       n |-> r.a.numSlots])
    /\ UNCHANGED <<phase, recorded>>
    /\ UNCHANGED <<renderVars, animVars, meshVars, loadVars, extVars, m_skm>>

ResetCall ==
    /\ phase \in {"boot", "record"}
    /\ phase = "boot" => Len(reqs) <= MaxWarm
    /\ SetAllocator(Reset(AllocatorState))
    /\ lastRet' = -2
    /\ reqs' = <<>>
    /\ phase' = IF phase = "boot" THEN "record" ELSE "replay"
    /\ recorded' = IF phase = "boot"
                   THEN [recorded EXCEPT !.warm = Len(reqs)]
                   ELSE [recorded EXCEPT !.reqs = reqs, !.slots = m_slots,
                                         !.numSlots = m_numSlots]
    /\ UNCHANGED <<renderVars, animVars, meshVars, loadVars, extVars, m_skm>>

InitAlloc ==
    /\ RenderInit /\ AllocInit /\ AnimInit /\ MeshInit /\ LoadInit /\ ExtInit
    /\ m_prm = NoRoom /\ m_skm = NoSkel

NextAlloc == AllocCall \/ ResetCall

SpecAlloc == InitAlloc /\ [][NextAlloc]_vars

-----------------------------------------------------------------------------
(* Properties of the allocator                                             *)

\* The slot a successful call of the current run recorded.
SlotOf(e) == m_slots[e.ret + 1]

ReqWidth(e) == VramWidth(e.req.texel_w, e.req.format)

ReqSpan(e) == PageSpan(e.req.format)

InOnePage(e) == (SlotOf(e).vram_x % 64) + SlotOf(e).vram_w <= ReqSpan(e)

RECURSIVE SumPixels(_, _)
SumPixels(log, n) ==
    IF n = 0 THEN 0
    ELSE SumPixels(log, n - 1) + ReqWidth(log[n]) * log[n].req.texel_h

RECURSIVE SumClut(_, _)
SumClut(log, n) ==
    IF n = 0 THEN 0
    ELSE SumClut(log, n - 1) + ClutWidth(log[n].req.num_clut_colors)

\* The requests of the run add up to no more than the area of the pixel
\* region and of the palette region.
FootprintFits ==
    /\ SumPixels(reqs, Len(reqs)) <= (TEX_X1 - TEX_X0) * (TEX_Y1 - TEX_Y0)
    /\ SumClut(reqs, Len(reqs)) <= CLUT_X1 * (CLUT_Y1 - CLUT_Y0)

RoomFor(e) ==
    /\ e.pre.numSlots < MAX_TEXTURES
    /\ e.pre.texCurY + e.pre.texRowH + e.req.texel_h <= TEX_Y1
    /\ \/ e.pre.clutCurY < CLUT_Y1
          /\ e.pre.clutCurX + ClutWidth(e.req.num_clut_colors) <= CLUT_X1
       \/ e.pre.clutCurY + 1 < CLUT_Y1

C5_ReplayIdentical ==
    phase = "replay" =>
        /\ \A k \in 1..Len(reqs) :
              /\ reqs[k].ret = recorded.reqs[k].ret
              /\ reqs[k].ret >= 0 =>
                    /\ reqs[k].ret < m_numSlots
                    /\ m_slots[reqs[k].ret + 1] = recorded.slots[reqs[k].ret + 1]
        /\ Len(reqs) = Len(recorded.reqs) => m_numSlots = recorded.numSlots

\* A completed replay of three calls, one of them failing, recorded on an
\* allocator that had been used before its first reset.
C5_Witness ==
    /\ phase = "replay" /\ recorded.warm >= 1
    /\ Len(reqs) = MaxRecord /\ Len(recorded.reqs) = MaxRecord
    /\ \E k \in 1..Len(reqs) : reqs[k].ret = -1
    /\ m_numSlots = MaxRecord - 1

\* C6: a call returns -1 and records no slot, or records a slot of the
\* requested size that lies inside the pixel region X 320..1023, Y 0..495.
C6_InsideRegion ==
    \A k \in 1..Len(reqs) :
        IF reqs[k].ret = -1 THEN reqs[k].n = reqs[k].pre.numSlots
        ELSE /\ reqs[k].n = reqs[k].pre.numSlots + 1
             /\ SlotOf(reqs[k]).vram_w = ReqWidth(reqs[k])
             /\ SlotOf(reqs[k]).vram_h = reqs[k].req.texel_h
             /\ TEX_X0 <= SlotOf(reqs[k]).vram_x
             /\ SlotOf(reqs[k]).vram_x + SlotOf(reqs[k]).vram_w <= TEX_X1
             /\ TEX_Y0 <= SlotOf(reqs[k]).vram_y
             /\ SlotOf(reqs[k]).vram_y + SlotOf(reqs[k]).vram_h <= TEX_Y1

-----------------------------------------------------------------------------
(* Animation playback: frames of a room with an animated skeleton          *)

AnimDescs == {[frame_count |-> n, flags |-> f] : n \in 1..MaxFrameCount, f \in {0, 1}}

AnimTables == {<<a>> : a \in AnimDescs} \cup {<<a, b>> : a, b \in AnimDescs}

\* Input handling at the top of frame(): the pause toggle.
TogglePause ==
    /\ pc = "idle" /\ m_skm.loaded
    /\ m_animPaused' = ~m_animPaused
    /\ UNCHANGED <<m_animIdx, m_animFrame, animTrace>>
    /\ UNCHANGED <<renderVars, allocVars, meshVars, loadVars, extVars, m_skm>>

\* Input handling at the top of frame(): switching to another animation
\* restarts it at frame 0.
SwitchAnim ==
    /\ pc = "idle" /\ m_skm.loaded
    /\ \E idx \in 0..(Len(m_skm.anims) - 1) :
          /\ idx # m_animIdx
          /\ m_animIdx' = idx
    /\ m_animFrame' = 0
    /\ animTrace' = <<0>>
    /\ UNCHANGED m_animPaused
    /\ UNCHANGED <<renderVars, allocVars, meshVars, loadVars, extVars, m_skm>>

InitAnim ==
    /\ RenderInit /\ AllocInit /\ AnimInit /\ MeshInit /\ LoadInit /\ ExtInit
    /\ m_prm = Room(<<TwinChunk>>)
    /\ \E anims \in AnimTables : m_skm = Posed(<<TwinLimb>>, anims)

NextAnim ==
    TogglePause \/ SwitchAnim \/ BeginFrame \/ RenderChunk \/ RenderSkeleton \/ Submit

SpecAnim == InitAnim /\ [][NextAnim]_vars

\* The animation being played.
CurAnim == m_skm.anims[m_animIdx + 1]

\* C7: for a non-looping animation, once the frame index has reached
\* frame_count - 1, every later unpaused advance leaves it at frame_count - 1.
C7_ClampAtLastFrame ==
    (m_skm.loaded /\ CurAnim.flags % 2 = 0) =>
        \A k \in 1..Len(animTrace) : \A j \in k..Len(animTrace) :
            animTrace[k] = CurAnim.frame_count - 1 =>
                animTrace[j] = CurAnim.frame_count - 1

\* A non-looping animation of several frames advanced at least twice after it
\* reached its last frame.
C7_Witness ==
    /\ m_skm.loaded /\ CurAnim.flags % 2 = 0 /\ CurAnim.frame_count = MaxFrameCount
    /\ Len(animTrace) >= CurAnim.frame_count + 2
    /\ m_animFrame = CurAnim.frame_count - 1
    /\ animTrace[CurAnim.frame_count] = CurAnim.frame_count - 1

\* C8: for a looping animation of N frames, N consecutive unpaused advances
\* starting at frame index 0 pass through 1, 2, ..., N-1 in order and return
\* the frame index to 0.
C8_LoopReturnsToZero ==
    (m_skm.loaded /\ CurAnim.flags % 2 = 1) =>
        \A k \in 1..Len(animTrace) :
            (animTrace[k] = 0 /\ k + CurAnim.frame_count <= Len(animTrace)) =>
                /\ \A j \in 1..(CurAnim.frame_count - 1) : animTrace[k + j] = j
                /\ animTrace[k + CurAnim.frame_count] = 0

\* A looping animation of several frames that has gone round twice.
C8_Witness ==
    /\ m_skm.loaded /\ CurAnim.flags % 2 = 1 /\ CurAnim.frame_count = MaxFrameCount
    /\ Len(animTrace) = 2 * CurAnim.frame_count + 1
    /\ m_animFrame = 0

\* renderSkeleton run with the animation paused.
PausedRender == pc = "chunks" /\ pc' = "submit" /\ m_skm.loaded /\ m_animPaused

-----------------------------------------------------------------------------
(* SKM / PRM mesh data accessors (skm.h, prm.h)                            *)

\* sizeof(SKM::Header), sizeof(SKM::LimbDesc)
SKM_HEADER_SIZE == 20
LIMB_DESC_SIZE == 12

\* sizeof(PRM::Header), sizeof(PRM::ChunkDesc)
PRM_HEADER_SIZE == 20
CHUNK_DESC_SIZE == 16

\* A UV array size without the padding.
UvSizeUnpadded(nv) == nv * 2

\* uv_sz = (num_verts * sizeof(UV) + 3) & ~3u
UvSize(nv) == ((nv * 2 + 3) \div 4) * 4

\* Bytes of one limb's mesh block: nv*8 + nv*4 + ((nv*2 + 3) & ~3u) + nt*4.
\* With 16-bit counts a block is below 2^20 bytes, so 32-bit sums of up to
\* 255 blocks do not wrap.
LimbBlockSize(l) == l.num_verts * 8 + l.num_verts * 4 + UvSize(l.num_verts) + l.num_tris * 4

\* header(skm)->mesh_start for a blob laid out as the format comment says:
\* the mesh data follows the header and the limb descriptors.
MeshStart(skm) == SKM_HEADER_SIZE + Len(skm.limbs) * LIMB_DESC_SIZE

\* limbPositions: linear scan over the limbs before limbIdx.
RECURSIVE ScanTo(_, _, _, _)
ScanTo(ls, limbIdx, i, p) ==
    IF i < limbIdx THEN ScanTo(ls, limbIdx, i + 1, p + LimbBlockSize(ls[i + 1])) ELSE p

limbPositions(skm, limbIdx) == ScanTo(skm.limbs, limbIdx, 0, MeshStart(skm))

limbColors(skm, limbIdx) ==
    limbPositions(skm, limbIdx) + skm.limbs[limbIdx + 1].num_verts * 8

limbUVs(skm, limbIdx) ==
    limbColors(skm, limbIdx) + skm.limbs[limbIdx + 1].num_verts * 4

limbTriangles(skm, limbIdx) ==
    limbUVs(skm, limbIdx) + UvSize(skm.limbs[limbIdx + 1].num_verts)

\* LimbMeshCache::build: offsets[i] for i < num_limbs && i < 21.
RECURSIVE BuildOffsets(_, _, _, _)
BuildOffsets(ls, i, off, acc) ==
    IF i < Len(ls) /\ i < MAX_LIMBS
    THEN BuildOffsets(ls, i + 1, off + LimbBlockSize(ls[i + 1]), Append(acc, off))
    ELSE acc

\* What a read of offsets[limbIdx] yields: the built entry, or, past the end
\* of the 21-entry array, whatever lies there (g).
ReadOffset(limbIdx, g) == IF limbIdx < Len(offsets) THEN offsets[limbIdx + 1] ELSE g

\* LimbMeshCache::positions / colors / uvs / triangles
cachePositions(skm, limbIdx, g) == MeshStart(skm) + ReadOffset(limbIdx, g)

cacheColors(skm, limbIdx, g) ==
    cachePositions(skm, limbIdx, g) + skm.limbs[limbIdx + 1].num_verts * 8

cacheUVs(skm, limbIdx, g) ==
    cacheColors(skm, limbIdx, g) + skm.limbs[limbIdx + 1].num_verts * 4

cacheTriangles(skm, limbIdx, g) ==
    cacheUVs(skm, limbIdx, g) + UvSize(skm.limbs[limbIdx + 1].num_verts)

\* PRM::positions / colors / uvs / triangles of a chunk descriptor c.
prmPositions(data_start, c) == data_start + c.data_offset
prmColors(data_start, c) == prmPositions(data_start, c) + c.num_verts * 8
prmUVs(data_start, c) == prmColors(data_start, c) + c.num_verts * 4
prmTriangles(data_start, c) == prmUVs(data_start, c) + UvSize(c.num_verts)

\* Descriptors: vertex and triangle counts (odd and even, zero included).
Desc(nv, nt) == [num_verts |-> nv, num_tris |-> nt]

Descs == {Desc(nv, nt) : nv \in 0..3, nt \in 0..1}

RECURSIVE DescLists(_)
DescLists(n) ==
    IF n = 0 THEN {<<>>}
    ELSE {Append(s, d) : s \in DescLists(n - 1), d \in Descs}

\* A long skeleton: n limbs whose counts follow pattern k.
LongLimbs(n, k) == [i \in 1..n |-> Desc((i * k) % 4, (i + k) % 3)]

MeshSkeletons ==
    {Skel(ls, OneAnim) : ls \in UNION {DescLists(n) : n \in 1..MaxLimbs}}
    \cup {Skel(LongLimbs(n, k), OneAnim) : n \in {MAX_LIMBS, MAX_LIMBS + 1}, k \in 1..3}

\* A room whose chunks carry the data offsets the converter wrote: blocks laid
\* end to end from data_start.
ChunkDescsOf(ls) ==
    [i \in 1..Len(ls) |->
        [num_verts |-> ls[i].num_verts, num_tris |-> ls[i].num_tris,
         data_offset |-> ScanTo(ls, i - 1, 0, 0)]]

\* Values a read past the end of offsets[] may yield.
Garbage(skm, limbIdx) == {0, 12, limbPositions(skm, limbIdx) - MeshStart(skm)}

\* loadSkeleton: m_limbCache.build(m_skm)
Build ==
    /\ m_skm.loaded /\ ~cacheBuilt
    /\ cacheBuilt' = TRUE
    /\ offsets' = BuildOffsets(m_skm.limbs, 0, 0, <<>>)
    /\ UNCHANGED <<query, prmQuery>>
    /\ UNCHANGED <<renderVars, allocVars, animVars, loadVars, extVars, m_skm>>

\* One limb looked up through both families of accessors, as drawLimb does
\* for every limb below num_limbs.
QueryLimb ==
    /\ m_skm.loaded /\ cacheBuilt
    /\ \E limbIdx \in 0..(Len(m_skm.limbs) - 1) :
       \E g \in (IF limbIdx < MAX_LIMBS THEN {0} ELSE Garbage(m_skm, limbIdx)) :
          query' = [limb |-> limbIdx,
                    linear |-> [pos |-> limbPositions(m_skm, limbIdx),
                                col |-> limbColors(m_skm, limbIdx),
                                uv  |-> limbUVs(m_skm, limbIdx),
                                tri |-> limbTriangles(m_skm, limbIdx),
                                next |-> limbPositions(m_skm, limbIdx + 1)],
                    cached |-> [pos |-> cachePositions(m_skm, limbIdx, g),
                                col |-> cacheColors(m_skm, limbIdx, g),
                                uv  |-> cacheUVs(m_skm, limbIdx, g),
                                tri |-> cacheTriangles(m_skm, limbIdx, g)]]
    /\ UNCHANGED <<cacheBuilt, offsets, prmQuery>>
    /\ UNCHANGED <<renderVars, allocVars, animVars, loadVars, extVars, m_skm>>

\* One chunk's sub-arrays looked up as renderChunk does.
QueryChunk ==
    /\ m_prm.loaded
    /\ \E c \in 1..Len(m_prm.chunks) :
          prmQuery' = [chunk |-> c,
                       pos |-> prmPositions(m_prm.data_start, m_prm.chunks[c]),
                       col |-> prmColors(m_prm.data_start, m_prm.chunks[c]),
                       uv  |-> prmUVs(m_prm.data_start, m_prm.chunks[c]),
                       tri |-> prmTriangles(m_prm.data_start, m_prm.chunks[c])]
    /\ UNCHANGED <<cacheBuilt, offsets, query>>
    /\ UNCHANGED <<renderVars, allocVars, animVars, loadVars, extVars, m_skm>>

InitMesh ==
    /\ RenderInit /\ AllocInit /\ AnimInit /\ MeshInit /\ LoadInit /\ ExtInit
    /\ \E sk \in MeshSkeletons :
          /\ m_skm = sk
          /\ m_prm = [loaded |-> TRUE, chunks |-> ChunkDescsOf(sk.limbs),
                      num_textures |-> 0,
                      data_start |-> PRM_HEADER_SIZE + Len(sk.limbs) * CHUNK_DESC_SIZE]

NextMesh == Build \/ QueryLimb \/ QueryChunk

SpecMesh == InitMesh /\ [][NextMesh]_vars

-----------------------------------------------------------------------------
(* Properties of the mesh accessors                                        *)

CacheAgrees ==
    /\ query.cached.pos = query.linear.pos
    /\ query.cached.col = query.linear.col
    /\ query.cached.uv  = query.linear.uv
    /\ query.cached.tri = query.linear.tri

\* C9: for every limb index below num_limbs, the position, colour, UV and
\* triangle addresses returned by LimbMeshCache after build equal those
\* returned by limbPositions, limbColors, limbUVs and limbTriangles.
C9_CacheEqualsLinear == query.limb >= 0 => CacheAgrees

\* The same for the limbs build has an entry for.
CacheAgreesBelow21 == (query.limb >= 0 /\ query.limb < MAX_LIMBS) => CacheAgrees

\* The limb last looked up.
QLimb == m_skm.limbs[query.limb + 1]

\* C10: the position (8*nv), colour (4*nv), UV (2*nv, rounded up to a
\* multiple of 4) and index (4*nt) sub-arrays of a limb follow one another in
\* that order without overlap, the limb's block starts where the previous
\* limb's index array ends (the first at the mesh start), and the index array
\* starts on a 4-byte boundary relative to the mesh start; a chunk's
\* sub-arrays (PRM::triangles) are laid out the same way.
C10_SubArraysSequential ==
    /\ query.limb >= 0 =>
          /\ query.linear.col = query.linear.pos + 8 * QLimb.num_verts
          /\ query.linear.uv = query.linear.col + 4 * QLimb.num_verts
          /\ query.linear.tri >= query.linear.uv + 2 * QLimb.num_verts
          /\ query.linear.tri < query.linear.uv + 2 * QLimb.num_verts + 4
          /\ (query.linear.tri - query.linear.uv) % 4 = 0
          /\ (query.linear.tri - MeshStart(m_skm)) % 4 = 0
          /\ query.linear.next = query.linear.tri + 4 * QLimb.num_tris
          /\ query.limb = 0 => query.linear.pos = MeshStart(m_skm)
          /\ query.limb > 0 =>
                query.linear.pos = limbTriangles(m_skm, query.limb - 1)
                                   + 4 * m_skm.limbs[query.limb].num_tris
    /\ prmQuery.chunk > 0 =>
          LET c == m_prm.chunks[prmQuery.chunk]
          IN  /\ prmQuery.col = prmQuery.pos + 8 * c.num_verts
              /\ prmQuery.uv = prmQuery.col + 4 * c.num_verts
              /\ prmQuery.tri >= prmQuery.uv + 2 * c.num_verts
              /\ prmQuery.tri < prmQuery.uv + 2 * c.num_verts + 4
              /\ (prmQuery.tri - m_prm.data_start) % 4 = 0

\* A limb after the first with an odd vertex count, so that its UV array is
\* padded, looked up together with a chunk of odd vertex count.
C10_Witness ==
    /\ query.limb > 0 /\ QLimb.num_verts % 2 = 1 /\ QLimb.num_tris > 0
    /\ m_skm.limbs[query.limb].num_verts % 2 = 1
    /\ query.linear.tri = query.linear.uv + 2 * QLimb.num_verts + 2
    /\ prmQuery.chunk > 0 /\ m_prm.chunks[prmQuery.chunk].num_verts % 2 = 1

-----------------------------------------------------------------------------
(* Properties of the frame pipeline, continued                             *)

\* The projected vertex v of a chunk or limb.
Projected(part, v) == GteRtp(part.pos[v + 1])

\* floor((z0 + z1 + z2) * (OT_SIZE / 3) / 4096) for a triangle of a part.
BucketOf(part, tri) ==
    ((Projected(part, tri.v0).sz + Projected(part, tri.v1).sz
      + Projected(part, tri.v2).sz) * (OT_SIZE \div 3)) \div 4096

\* Twice the signed screen area of a triangle of a part.
AreaOf(part, tri) ==
    LET a == Projected(part, tri.v0)
        b == Projected(part, tri.v1)
        c == Projected(part, tri.v2)
    IN  (b.sx - a.sx) * (c.sy - a.sy) - (c.sx - a.sx) * (b.sy - a.sy)

OnScreen(part, v) ==
    /\ Projected(part, v).sx >= -512 /\ Projected(part, v).sx <= 512
    /\ Projected(part, v).sy >= -512 /\ Projected(part, v).sy <= 512

\* A chunk triangle that passes the near-plane, backface and screen-bounds
\* tests and whose bucket is strictly between 0 and OT_SIZE.
ChunkVisible(part, tri) ==
    /\ NearOk(part, tri)
    /\ AreaOf(part, tri) > 0
    /\ OnScreen(part, tri.v0) /\ OnScreen(part, tri.v1) /\ OnScreen(part, tri.v2)
    /\ 0 < BucketOf(part, tri) /\ BucketOf(part, tri) < OT_SIZE

\* The visible triangles of a chunk, in mesh order, as <<chunk, triangle>>.
RECURSIVE VisibleOf(_, _, _)
VisibleOf(chunks, c, t) ==
    IF t = 0 THEN <<>>
    ELSE VisibleOf(chunks, c, t - 1)
         \o (IF ChunkVisible(chunks[c], chunks[c].tris[t]) THEN <<<<c, t>>>> ELSE <<>>)

\* The visible triangles of the first n chunks.
RECURSIVE VisibleUpTo(_, _)
VisibleUpTo(chunks, n) ==
    IF n = 0 THEN <<>>
    ELSE VisibleUpTo(chunks, n - 1) \o VisibleOf(chunks, n, chunks[n].num_tris)

\* C11: while the chunk loop runs and the pool is not full, the records of the
\* frame are exactly the visible triangles of the chunks processed so far, one
\* record and one insert each, in order, the insert at bucket
\* floor((z0 + z1 + z2) * (OT_SIZE / 3) / 4096); three depths of 100 give
\* bucket 24.
C11_OneRecordPerTriangle ==
    (pc = "chunks" /\ Len(VisibleUpTo(m_prm.chunks, ci)) <= MAX_TRIS) =>
        LET vis == VisibleUpTo(m_prm.chunks, ci)
            ot  == m_ots[m_parity]
        IN  /\ m_triCount = Len(vis)
            /\ Len(ot) = Len(vis)
            /\ \A k \in 1..Len(vis) :
                  LET part == m_prm.chunks[vis[k][1]]
                      tri  == part.tris[vis[k][2]]
                  IN  /\ ot[k].frag = [pool |-> "tris", idx |-> k - 1]
                      /\ ot[k].z = BucketOf(part, tri)
                      /\ m_tris[m_parity][k].src
                           = <<Projected(part, tri.v0), Projected(part, tri.v1),
                               Projected(part, tri.v2)>>
                      /\ (\A v \in 1..3 : m_tris[m_parity][k].src[v].sz = 100)
                            => ot[k].z = 24

\* A single chunk of one front-facing on-screen triangle with three depths of
\* 100 has been rendered: one record, one insert at bucket 24.
C11_Witness ==
    /\ pc = "chunks" /\ ci = 1 /\ Len(m_prm.chunks) = 1
    /\ m_prm.chunks[1].pos = <<V(0, 100), V(1, 100), V(2, 100)>>
    /\ m_prm.chunks[1].tris = <<T012>>
    /\ m_triCount = 1
    /\ m_ots[m_parity] = <<[frag |-> [pool |-> "tris", idx |-> 0], z |-> 24]>>

-----------------------------------------------------------------------------
(* Frames of a room with a posed skeleton                                  *)

\* Child / sibling link tables, one <<child, sibling>> pair per limb.
LinkShapes ==
    { <<<<NO_LINK, NO_LINK>>>>,                                    \* a single root
      <<<<NO_LINK, NO_LINK>>, <<NO_LINK, NO_LINK>>>>,              \* limb 1 unlinked
      <<<<NO_LINK, 1>>, <<NO_LINK, NO_LINK>>>>,                    \* a sibling of the root
      <<<<1, NO_LINK>>, <<NO_LINK, 2>>, <<NO_LINK, NO_LINK>>>>,    \* 1, 2 under the root
      <<<<1, NO_LINK>>, <<2, NO_LINK>>, <<NO_LINK, NO_LINK>>>>,    \* a chain
      <<<<1, NO_LINK>>, <<2, 3>>, <<NO_LINK, NO_LINK>>, <<NO_LINK, NO_LINK>>>>,
      <<<<1, NO_LINK>>, <<2, NO_LINK>>, <<NO_LINK, 3>>, <<NO_LINK, NO_LINK>>>> }

\* Stored {x, y, z} rotation triples: none, and a quarter turn about each axis.
RotChoices == {<<0, 0, 0>>, <<16384, 0, 0>>, <<0, 16384, 0>>, <<0, 0, -16384>>}

\* Limbs 0 and 1 take the given triples, the limbs after them a fixed one each.
RotsOf(n, r0, r1) ==
    [i \in 1..n |-> IF i = 1 THEN r0
                    ELSE IF i = 2 THEN r1
                    ELSE IF i = 3 THEN <<0, 16384, 0>> ELSE <<0, 0, -16384>>]

\* a limb with vertices and no triangles, and one with triangles and no vertices
NoTriPart == Part(<<V(0, 100), V(1, 100), V(2, 100)>>, <<>>)
NoVertPart == [num_verts |-> 0, num_tris |-> 1, pos |-> <<>>, tris |-> <<T021>>]

\* The joint offset of a limb other than the root.
JointOf(i) == <<i + 1, 10 * (i + 1), -(i + 1)>>

\* A skeleton over a link table: limb 1 carries mesh part `mid`, the root's
\* joint offset is rootJoint, its only keyframe is `frame`.
TreeSkel(shape, mid, rootJoint, frame) ==
    Skel([i \in 1..Len(shape) |->
             Limb(IF i = 2 THEN mid ELSE TwinLimb,
                  IF i = 1 THEN rootJoint ELSE JointOf(i - 1),
                  shape[i][1], shape[i][2])],
         <<[frame_count |-> 1, flags |-> 0, frames |-> <<frame>>]>>)

BoneSkeletons ==
    {TreeSkel(shape, mid, rj, Keyframe(root, RotsOf(Len(shape), r0, r1))) :
        shape \in LinkShapes,
        mid \in {TwinLimb, EmptyPart, NoTriPart, NoVertPart},
        rj \in {<<0, 0, 0>>, <<5, 6, 7>>},
        root \in {<<10, 20, 30>>, <<-3, 0, 7>>},
        r0 \in RotChoices, r1 \in RotChoices}

InitBones ==
    /\ RenderInit /\ AllocInit /\ AnimInit /\ MeshInit /\ LoadInit /\ ExtInit
    /\ m_prm = Room(<<TwinChunk>>)
    /\ \E sk \in BoneSkeletons : m_skm = sk

NextBones == BeginFrame \/ RenderChunk \/ RenderSkeleton \/ Submit

SpecBones == InitBones /\ [][NextBones]_vars

\* The keyframe the skeleton was last posed from.
PosedFrame == AnimFrame(m_skm, m_animIdx, m_animFrame)

\* computeBones has run in this frame.
BonesDone == pc = "submit" /\ m_skm.loaded

RECURSIVE SiblingChain(_, _)
SiblingChain(ls, first) ==
    IF first = NO_LINK THEN {}
    ELSE {first} \cup SiblingChain(ls, ls[first + 1].sibling)

\* The limbs whose tree parent is limb p: its first child and that child's siblings.
ChildrenOf(ls, p) == SiblingChain(ls, ls[p + 1].child)

\* The tree parents of limb l (at most one in a well-formed skeleton).
TreeParents(ls, l) == {p \in 0..(Len(ls) - 1) : l \in ChildrenOf(ls, p)}

\* The pose computeBoneRecurse gives a limb whose parent has pose p.
PosedFrom(p, limb, frame, limbIdx) ==
    LET r == FrameLimbRot(frame, limbIdx)
        j == limb.joint
    IN  [rot |-> MultiplyMatrix33(p.rot, EulerZYX(r.rz, r.ry, r.rx)),
         tx  |-> p.tx + ((p.rot[1][1] * j[1] + p.rot[1][2] * j[2] + p.rot[1][3] * j[3]) \div ONE),
         ty  |-> p.ty + ((p.rot[2][1] * j[1] + p.rot[2][2] * j[2] + p.rot[2][3] * j[3]) \div ONE),
         tz  |-> p.tz + ((p.rot[3][1] * j[1] + p.rot[3][2] * j[2] + p.rot[3][3] * j[3]) \div ONE)]

\* C16: every limb other than the root that computeBones reaches is posed from
\* the pose of its tree parent: a limb reached over a sibling link was given
\* the same parent pose as the limb that links to it, a limb reached over a
\* child link the pose just computed for the limb that links to it.
C16_PosedFromTreeParent ==
    BonesDone =>
        \A l \in 1..(Len(m_skm.limbs) - 1) :
            m_bones[l].set =>
                /\ \E p \in TreeParents(m_skm.limbs, l) :
                      /\ m_bones[p].set
                      /\ m_bones[l].from = PoseOf(m_bones[p])
                      /\ PoseOf(m_bones[l]) =
                            PosedFrom(PoseOf(m_bones[p]), m_skm.limbs[l + 1], PosedFrame, l)
                /\ m_bones[l].via = "sibling" =>
                      \E s \in 1..(Len(m_skm.limbs) - 1) :
                          /\ m_skm.limbs[s + 1].sibling = l
                          /\ m_bones[s].set /\ m_bones[s].from = m_bones[l].from
                /\ m_bones[l].via = "child" =>
                      \E c \in 0..(Len(m_skm.limbs) - 1) :
                          /\ m_skm.limbs[c + 1].child = l
                          /\ m_bones[c].set /\ m_bones[l].from = PoseOf(m_bones[c])

\* Limb 1 has child 2 and sibling 3: limb 3 is posed from the root like limb 1,
\* limb 2 from limb 1, and the two parent poses differ.
C16_Witness ==
    /\ BonesDone /\ Len(m_skm.limbs) = 4
    /\ m_skm.limbs[2].child = 2 /\ m_skm.limbs[2].sibling = 3
    /\ m_bones[3].via = "sibling" /\ m_bones[3].from = PoseOf(m_bones[0])
    /\ m_bones[2].via = "child" /\ m_bones[2].from = PoseOf(m_bones[1])
    /\ PoseOf(m_bones[1]) # PoseOf(m_bones[0])

\* C25: in every frame that renders the skeleton, each limb that drawLimb
\* draws (index below num_limbs, with vertices and triangles) has had its bone
\* pose written by computeBones in that frame: no limb is drawn with a pose
\* that was never computed or is left over from an earlier frame.
C25_DrawnLimbsPosed ==
    BonesDone =>
        \A l \in 0..(Len(m_skm.limbs) - 1) :
            ~(m_skm.limbs[l + 1].num_verts = 0 \/ m_skm.limbs[l + 1].num_tris = 0) =>
                /\ m_bones[l].set
                /\ l > 0 => \E p \in TreeParents(m_skm.limbs, l) :
                               PoseOf(m_bones[l]) =
                                   PosedFrom(PoseOf(m_bones[p]), m_skm.limbs[l + 1],
                                             PosedFrame, l)

\* The limbs other than the root that computeBones reaches.
Reached(ls) == {l \in 1..(Len(ls) - 1) : m_bones[l].set}

\* A limb whose descriptor has no vertices or no triangles.
Meshless(limb) == limb.num_verts = 0 \/ limb.num_tris = 0

\* C17: a reached limb with zero vertices or zero triangles still has its pose
\* computed from its parent and its children posed from it, while drawing it
\* writes no record, makes no table insert and leaves m_triCount as it was.
C17_MeshlessLimbPosedNotDrawn ==
    BonesDone =>
        \A l \in Reached(m_skm.limbs) :
            Meshless(m_skm.limbs[l + 1]) =>
                /\ \E p \in TreeParents(m_skm.limbs, l) :
                      PoseOf(m_bones[l]) =
                          PosedFrom(PoseOf(m_bones[p]), m_skm.limbs[l + 1], PosedFrame, l)
                /\ \A c \in ChildrenOf(m_skm.limbs, l) :
                      /\ m_bones[c].set
                      /\ PoseOf(m_bones[c]) =
                            PosedFrom(PoseOf(m_bones[l]), m_skm.limbs[c + 1], PosedFrame, c)
                /\ limbTrace[l + 2] = limbTrace[l + 1]

\* Limb 1 has triangles but no vertices and a child that is drawn: the child is
\* posed from limb 1, and the limbs before and after limb 1 emit triangles.
C17_Witness ==
    /\ BonesDone /\ Len(m_skm.limbs) = 3
    /\ m_skm.limbs[2].num_verts = 0
    /\ m_skm.limbs[2].num_tris = 1 /\ m_skm.limbs[2].child = 2
    /\ m_bones[1].set /\ m_bones[2].from = PoseOf(m_bones[1])
    /\ limbTrace[3] = limbTrace[2]
    /\ limbTrace[2].cnt > limbTrace[1].cnt
    /\ limbTrace[4].cnt > limbTrace[3].cnt

\* A frame is being built: between its per-frame reset and its submit.
InFrame == pc \in {"chunks", "submit"}

\* C14: while a frame is built, the buffer pair it writes (records and
\* ordering table of m_parity) is not the pair last handed to the display, and
\* that pair stays exactly as it was handed over: every record write and every
\* insert of the frame lands in the pair of the frame's own parity.
C14_WritesOwnParityOnly ==
    (InFrame /\ drained.parity >= 0) =>
        /\ m_parity # drained.parity
        /\ m_ots[drained.parity] = drained.ot
        /\ m_tris[drained.parity] = drained.tris

\* The second of two frames that both emitted triangles, ready for submit.
C14_Witness ==
    /\ pc = "submit" /\ drained.parity = 1 - m_parity
    /\ drained.ot # <<>> /\ drained.ot[1].frag.pool = "tris"
    /\ m_triCount > 0 /\ Len(frameWrites) = m_triCount
    /\ m_ots[m_parity] # <<>>

-----------------------------------------------------------------------------
(* Frames of rooms that fill the triangle pool or exceed the scratch array *)

\* A chunk of n front-facing triangles at depth 100 over three vertices.
BigChunk(n) == Part(<<V(0, 100), V(1, 100), V(2, 100)>>, [k \in 1..n |-> T012])

\* A chunk of nv vertices and one front-facing triangle.
WideChunk(nv) == Part([k \in 1..nv |-> V((k - 1) % 3, 100)], <<T012>>)

\* Triangle counts around the pool size, vertex counts around the scratch size.
BigCounts == (MAX_TRIS - 2)..(MAX_TRIS + MaxOver)
WideCounts == (MAX_VTX - 1)..(MAX_VTX + MaxOver)

FullScenes ==
    {<<Room(<<BigChunk(n), c>>), sk>> :
        n \in BigCounts, c \in {TwinChunk, FarChunk, EmptyPart},
        sk \in {NoSkel, Posed(<<TwinLimb>>, OneAnim)}}
    \cup {<<Room(<<WideChunk(nv)>>), NoSkel>> : nv \in WideCounts}

InitFull ==
    /\ RenderInit /\ AllocInit /\ AnimInit /\ MeshInit /\ LoadInit /\ ExtInit
    /\ \E sc \in FullScenes : m_prm = sc[1] /\ m_skm = sc[2]

NextFull == BeginFrame \/ RenderChunk \/ RenderSkeleton \/ Submit

SpecFull == InitFull /\ [][NextFull]_vars

\* The triangles the room's chunks and the skeleton's limbs offer in a frame.
RECURSIVE SumTris(_, _)
SumTris(parts, i) ==
    IF i > Len(parts) THEN 0 ELSE parts[i].num_tris + SumTris(parts, i + 1)

\* The counter and the slots written since the frame's reset.
PoolWithinBounds ==
    /\ m_triCount >= 0 /\ m_triCount <= MAX_TRIS
    /\ InFrame =>
          /\ Len(frameWrites) = m_triCount
          /\ \A k \in 1..Len(frameWrites) : frameWrites[k] = k - 1
          /\ Len(m_ots[m_parity]) = m_triCount
          /\ Len(m_tris[m_parity]) <= MAX_TRIS
          /\ (pc = "chunks" /\ ci = 0) => m_triCount = 0

\* The next step of the frame whose guard holds: the chunk loop, the skeleton
\* once the chunks are done, or the submit.
FrameCanStep ==
    \/ pc = "chunks" /\ ci < Len(m_prm.chunks)
    \/ pc = "chunks" /\ ci = Len(m_prm.chunks)
    \/ pc = "submit"

\* A step of a frame whose pool is full: the frame moves on towards its
\* submit, and while it is built neither pool nor table nor counter changes.
FullFrameStep ==
    (InFrame /\ m_triCount = MAX_TRIS) =>
        /\ ci' > ci \/ pc' # pc
        /\ InFrame' => /\ m_tris' = m_tris /\ m_ots' = m_ots
                       /\ m_triCount' = m_triCount /\ frameWrites' = frameWrites

\* C13: within a frame m_triCount starts at 0 and never exceeds MAX_TRIS, each
\* pool slot of the frame's parity is written at most once across all chunks
\* and limbs, every written slot is below MAX_TRIS, there is one table insert
\* per record; once the pool is full no further record or insert is made and
\* the frame still steps on to its submit.
C13_PoolNeverOverrun ==
    /\ [](PoolWithinBounds /\ (InFrame => FrameCanStep))
    /\ [][FullFrameStep]_vars

\* A frame ready for submit whose pool is full although the room and the
\* skeleton together offered more visible triangles than the pool holds.
C13_Witness ==
    /\ pc = "submit" /\ m_triCount = MAX_TRIS
    /\ m_prm.chunks[1].num_tris < MAX_TRIS
    /\ SumTris(m_prm.chunks, 1) + SumTris(m_skm.limbs, 1) > MAX_TRIS
    /\ m_skm.loaded

\* The scratch indices written so far (g_scratch is kept as the list of the
\* elements up to the highest index written; an index of MAX_VTX or more is a
\* write past the end of the array).
ScratchWritten == 0..(Len(g_scratch) - 1)

\* C19: for every chunk or limb, also one with more than MAX_VTX vertices, the
\* vertex transform writes scratch indices 0 .. MAX_VTX - 1 only.
C19_ScratchWithinCap == \A i \in ScratchWritten : i < MAX_VTX

-----------------------------------------------------------------------------
(* Asset loading and texture upload: loadSkeleton, loadRoom, uploadTextures *)

\* The rendering state other than the room handle.
frameVars == <<pc, ci, gpuParity, m_parity, m_triCount, m_ots, m_tris, g_scratch,
               chained, m_bones, limbTrace, frameWrites, drained>>

\* PRM::TexDesc / SKM::TexDesc
TD(w, h, f, n) == [width |-> w, height |-> h, format |-> f, num_clut_colors |-> n]

\* SKM::texClutCount
SkmTexClutCount(td) == IF td.num_clut_colors = 0 THEN 256 ELSE td.num_clut_colors

\* PRM::texClutCount
PrmTexClutCount(td) == IF td.num_clut_colors = 0 THEN 256 ELSE td.num_clut_colors

\* static_cast<uint16_t>(x)
UInt16(x) == x % 65536

\* One of the two loops of uploadTextures over a texture table: alloc() per
\* descriptor, `continue` on failure, the two uploads on success.  r = [a, log]:
\* the allocator and the list of the textures gone through.
RECURSIVE UploadTable(_, _, _, _)
UploadTable(r, table, texs, i) ==
    IF i < Len(texs)
    THEN LET td == texs[i + 1]
             clut_n == UInt16(IF table = "room" THEN PrmTexClutCount(td)
                                                ELSE SkmTexClutCount(td))
             res == Alloc(r.a, Tex(td.width, td.height, td.format, clut_n))
             entry == [table |-> table, index |-> i, td |-> td, clut_n |-> clut_n,
                       ret |-> res.ret,
                       slot |-> IF res.ret >= 0 THEN res.a.slots[res.ret + 1]
                                ELSE [vram_w |-> 0]]
         IN  UploadTable([a |-> res.a, log |-> Append(r.log, entry)], table, texs, i + 1)
    ELSE r

\* renderChunk: g_vramAlloc.info(idx.tex_id)
ChunkTexSlot(tex_id) == tex_id

\* drawLimb: texSlot = m_skelTexBase + idx.tex_id
LimbTexSlot(base, tex_id) == base + tex_id

\* Texture descriptors: 4-bit with 16 colours, 4-bit and 8-bit with a zero
\* colour count, and one taller than the whole pixel region (its alloc fails).
TexDescs == {TD(64, 64, 0, 16), TD(64, 64, 0, 0), TD(64, 64, 1, 0), TD(64, 1024, 0, 16)}

RECURSIVE TexTables(_)
TexTables(n) ==
    IF n = 0 THEN {<<>>}
    ELSE TexTables(n - 1) \cup {Append(s, td) : s \in TexTables(n - 1), td \in TexDescs}

RoomMesh(texs) ==
    [loaded |-> TRUE, chunks |-> <<TwinChunk>>, num_textures |-> Len(texs), texs |-> texs]

SkelMesh(texs) ==
    [loaded |-> TRUE, limbs |-> ChainLimbs(<<TwinLimb>>),
     anims |-> <<WithFrames(OneAnim[1], 1)>>, texs |-> texs]

\* What the header of a buffer shorter than a header may read as.
ShortReads == {RoomMesh(<<>>), RoomMesh(<<TD(64, 64, 0, 16)>>)}

\* Buffers the loader may hand to the room callback: none (failed read), two
\* that are shorter than a PRM header, and whole rooms.
RoomBuffers ==
    {NoBuffer}
    \cup {[size |-> s, mesh |-> g, file |-> -1] :
             s \in {4, PRM_HEADER_SIZE - 1}, g \in ShortReads}
    \cup {[size |-> PRM_HEADER_SIZE + CHUNK_DESC_SIZE, mesh |-> RoomMesh(tt), file |-> -1] :
             tt \in TexTables(MaxTexTable)}

\* Buffers for the skeleton callback: none, shorter than an SKM header,
\* exactly a header, and whole skeletons.
SkelBuffers ==
    {NoBuffer}
    \cup {[size |-> s, mesh |-> SkelMesh(<<>>), file |-> -1] : s \in {4, SKM_HEADER_SIZE}}
    \cup {[size |-> SKM_HEADER_SIZE + LIMB_DESC_SIZE, mesh |-> SkelMesh(tt), file |-> -1] :
             tt \in {<<>>, <<TD(64, 64, 0, 16)>>, <<TD(64, 1024, 0, 16), TD(64, 64, 1, 0)>>}}

\* Spawn 0 of each room: ROOM_SPAWNS[idx].{x, y, z}
ROOM_SPAWNS ==
    << <<-4, 0, 603>>, <<-4, 0, 603>>, <<-68, -80, 941>>, <<160, 0, 1415>>,
       <<110, 309, 781>>, <<5, 0, 983>>, <<-182, 620, 969>>, <<-254, -63, 734>>,
       <<-225, 1086, 3743>>, <<-2649, 138, 1063>> >>

\* The rooms asked for: two rooms of one scene (same spawn) and another room.
RoomChoices == {0, 1, 2}

\* loadRoom(idx): the handle is dropped, the index is recorded and the read
\* of ROOM_FILES[idx] is issued.
StartRoomLoad(idx) ==
    /\ m_loading' = TRUE
    /\ m_prm' = NoRoom
    /\ m_roomIdx' = idx
    /\ pending' = Append(pending, idx)
    /\ loadPc' = "room"

\* loadSkeleton(): the read of the skeleton file is issued.
LoadSkeleton ==
    /\ loadPc = "boot"
    /\ loadPc' = "skel"
    /\ UNCHANGED <<m_roomBuf, m_skelBuf, m_loading, m_needUpload, m_skelLoaded,
                   m_skelTexBase, m_roomIdx, m_skelPos, pending, uploaded>>
    /\ UNCHANGED <<frameVars, m_prm, m_skm, allocVars, animVars, extVars, meshVars>>

\* The callback of loadSkeleton: keeps the buffer, takes it as the skeleton if
\* it is larger than a header, then calls loadRoom(0).
SkelLoaded ==
    /\ loadPc = "skel"
    /\ \E buf \in SkelBuffers :
          /\ m_skelBuf' = buf
          /\ IF buf.size > SKM_HEADER_SIZE
             THEN /\ m_skm' = buf.mesh
                  /\ cacheBuilt' = TRUE
                  /\ offsets' = BuildOffsets(buf.mesh.limbs, 0, 0, <<>>)
                  /\ m_skelLoaded' = TRUE
             ELSE UNCHANGED <<m_skm, cacheBuilt, offsets, m_skelLoaded>>
    /\ StartRoomLoad(0)
    /\ UNCHANGED <<m_roomBuf, m_needUpload, m_skelTexBase, m_skelPos, uploaded, query,
                   prmQuery>>
    /\ UNCHANGED <<frameVars, allocVars, animVars, extVars>>

\* The callback of loadRoom for the oldest read in flight: m_prm =
\* m_roomBuf.data(), whatever the size; the spawn of room m_roomIdx.
RoomLoaded ==
    /\ loadPc = "room" /\ pending # <<>>
    /\ \E buf \in RoomBuffers :
          /\ m_roomBuf' = IF buf.size = 0 THEN buf ELSE [buf EXCEPT !.file = Head(pending)]
          /\ m_prm' = IF buf.size = 0 THEN NoRoom ELSE buf.mesh
          /\ m_needUpload' = (buf.size # 0)
    /\ m_skelPos' = ROOM_SPAWNS[m_roomIdx + 1]
    /\ m_loading' = FALSE
    /\ pending' = Tail(pending)
    /\ loadPc' = IF Tail(pending) = <<>> THEN "ready" ELSE "room"
    /\ UNCHANGED <<m_skelBuf, m_skelLoaded, m_skelTexBase, m_roomIdx, uploaded>>
    /\ UNCHANGED <<frameVars, m_skm, allocVars, animVars, extVars, meshVars>>

\* loadRoom(m_roomIdx) called again once the previous load has completed.
LoadRoom ==
    /\ loadPc = "ready"
    /\ StartRoomLoad(m_roomIdx)
    /\ UNCHANGED <<m_roomBuf, m_skelBuf, m_needUpload, m_skelLoaded, m_skelTexBase,
                   m_skelPos, uploaded>>
    /\ UNCHANGED <<frameVars, m_skm, allocVars, animVars, extVars, meshVars>>

\* loadRoom(idx) called for any room at any time after the first request,
\* also while a read is in flight: loadRoom does not look at m_loading.
RequestRoom ==
    /\ loadPc \in {"room", "ready"} /\ Len(pending) < MaxPending
    /\ \E idx \in RoomChoices : StartRoomLoad(idx)
    /\ UNCHANGED <<m_roomBuf, m_skelBuf, m_needUpload, m_skelLoaded, m_skelTexBase,
                   m_skelPos, uploaded>>
    /\ UNCHANGED <<frameVars, m_skm, allocVars, animVars, extVars, meshVars>>

\* uploadTextures(), run once for a room that asked for it: reset(), the room's
\* texture table, m_skelTexBase = numSlots(), the skeleton's texture table.
UploadTextures ==
    /\ loadPc = "ready" /\ m_needUpload
    /\ LET r0 == [a |-> Reset(AllocatorState), log |-> <<>>]
           r1 == IF m_prm.loaded THEN UploadTable(r0, "room", m_prm.texs, 0) ELSE r0
           r2 == IF m_skm.loaded THEN UploadTable(r1, "skel", m_skm.texs, 0) ELSE r1
       IN  /\ SetAllocator(r2.a)
           /\ m_skelTexBase' = r1.a.numSlots
           /\ uploaded' = r2.log
    /\ m_needUpload' = FALSE
    /\ UNCHANGED <<loadPc, m_roomBuf, m_skelBuf, m_loading, m_skelLoaded, m_roomIdx,
                   m_skelPos, pending>>
    /\ UNCHANGED <<lastRet, reqs, phase, recorded>>
    /\ UNCHANGED <<frameVars, m_prm, m_skm, animVars, extVars, meshVars>>

InitLoad ==
    /\ RenderInit /\ AllocInit /\ AnimInit /\ MeshInit /\ LoadInit /\ ExtInit
    /\ m_prm = NoRoom /\ m_skm = NoSkel

NextLoad == LoadSkeleton \/ SkelLoaded \/ RoomLoaded \/ LoadRoom \/ UploadTextures

SpecLoad == InitLoad /\ [][NextLoad]_vars

\* Room requests made at any time.
NextRooms == LoadSkeleton \/ SkelLoaded \/ RequestRoom \/ RoomLoaded

SpecRooms == InitLoad /\ [][NextRooms]_vars

-----------------------------------------------------------------------------
(* Properties of loading and texture upload                                *)

\* The skeleton callback has run / the room callback has run for the room
\* buffer now held.
SkelCallbackDone == loadPc \in {"room", "ready"}
RoomCallbackDone == loadPc = "ready"

\* A skeleton buffer too small for the header never becomes the skeleton.
ShortSkeletonRejected ==
    (SkelCallbackDone /\ m_skelBuf.size < SKM_HEADER_SIZE) =>
        ~m_skm.loaded /\ ~m_skelLoaded

\* A room buffer too small for the header never becomes the room, and no
\* texture upload is asked for or made from it.
ShortRoomRejected ==
    (RoomCallbackDone /\ m_roomBuf.size < PRM_HEADER_SIZE) =>
        /\ ~m_prm.loaded /\ ~m_needUpload
        /\ \A k \in 1..Len(uploaded) : uploaded[k].table # "room"

\* C15: a room or skeleton buffer too small to hold the header never becomes
\* the active mesh: its handle is null after the load callback and no texture
\* upload is requested for it.
C15_ShortBufferNeverActive == ShortSkeletonRejected /\ ShortRoomRejected

\* C18: a palette-size field of zero stands for the largest palette of the
\* texture's format (16 colours for 4-bit, 256 for 8-bit); a non-zero field is
\* used as stored.
C18_ZeroMeansFormatMax ==
    \A k \in 1..Len(uploaded) :
        LET u == uploaded[k]
        IN  u.clut_n = IF u.td.num_clut_colors # 0 THEN u.td.num_clut_colors
                       ELSE IF u.td.format = 0 THEN 16 ELSE 256

\* The allocator slot a triangle with texture index i reads: renderChunk for a
\* room texture, drawLimb for a skeleton texture.
LookupSlot(u) ==
    IF u.table = "room" THEN ChunkTexSlot(u.index)
    ELSE LimbTexSlot(m_skelTexBase, u.index)

\* C20: after uploadTextures, for every texture-table index whose allocation
\* succeeded, the slot a triangle with that tex_id looks up is below
\* numSlots() and holds that texture's own placement, also when an earlier
\* texture of the table failed to allocate and was skipped.
C20_LookupFindsOwnPlacement ==
    \A k \in 1..Len(uploaded) :
        LET u == uploaded[k]
        IN  u.ret >= 0 =>
               /\ LookupSlot(u) < m_numSlots
               /\ m_slots[LookupSlot(u) + 1] = u.slot

-----------------------------------------------------------------------------
(* Properties of the allocator, continued                                  *)

\* C21: every slot recorded by alloc lies inside one texture page vertically:
\* (vram_y mod 256) + vram_h <= 256, for textures of height up to 256.
C21_PageContainedVertically ==
    \A k \in 1..m_numSlots :
        m_slots[k].vram_h <= 256 => (m_slots[k].vram_y % 256) + m_slots[k].vram_h <= 256

\* C26: an alloc call that returns -1 leaves the allocator unchanged: slot
\* count, slots, pixel cursor (x, y, row height) and palette cursor.
C26_FailedAllocChangesNothing ==
    [][lastRet' = -1 =>
         UNCHANGED <<m_numSlots, m_slots, m_texCurX, m_texCurY, m_texRowH,
                     m_clutCurX, m_clutCurY>>]_vars

\* Half-open rectangles [x, x + w) x [y, y + h) that share no pixel.
RectsDisjoint(x1, y1, w1, h1, x2, y2, w2, h2) ==
    \/ w1 <= 0 \/ h1 <= 0 \/ w2 <= 0 \/ h2 <= 0
    \/ x1 + w1 <= x2 \/ x2 + w2 <= x1
    \/ y1 + h1 <= y2 \/ y2 + h2 <= y1

PixelRectsDisjoint(s, t) ==
    RectsDisjoint(s.vram_x, s.vram_y, s.vram_w, s.vram_h,
                  t.vram_x, t.vram_y, t.vram_w, t.vram_h)

ClutRectsDisjoint(s, t) ==
    RectsDisjoint(s.clut_x, s.clut_y, s.clut_w, 1,
                  t.clut_x, t.clut_y, t.clut_w, 1)

\* The calls of the current run that succeeded, in call order.
Successes == SelectSeq(reqs, LAMBDA e : e.ret >= 0)

\* C27: after any sequence of reset and alloc calls the slot count is at most
\* MAX_TEXTURES, the successful calls since the last reset returned 0, 1, 2,
\* ... in order, and the pixel rectangles of the recorded slots are pairwise
\* disjoint, as are their palette rectangles.
C27_SlotsCountedAndDisjoint ==
    /\ m_numSlots <= MAX_TEXTURES
    /\ Len(Successes) = m_numSlots
    /\ \A k \in 1..Len(Successes) : Successes[k].ret = k - 1
    /\ \A j \in 1..m_numSlots : \A k \in 1..m_numSlots :
          j < k => /\ PixelRectsDisjoint(m_slots[j], m_slots[k])
                   /\ ClutRectsDisjoint(m_slots[j], m_slots[k])

\* The slot table is full, its slots lie on more than one row of the pixel
\* region and of the palette region, and one more call was refused.
C27_Witness ==
    /\ m_numSlots = MAX_TEXTURES /\ lastRet = -1
    /\ \E j \in 1..m_numSlots : \E k \in 1..m_numSlots :
          /\ m_slots[j].vram_y # m_slots[k].vram_y
          /\ m_slots[j].clut_y # m_slots[k].clut_y

-----------------------------------------------------------------------------
(* transformVertices at the level of the GTE registers (room.cpp:127-171)  *)

\* The GTE screen FIFO: SXY0..SXY2 and SZ0..SZ3.
GteIdle == [sxy |-> <<[sx |-> 0, sy |-> 0], [sx |-> 0, sy |-> 0], [sx |-> 0, sy |-> 0]>>,
            sz |-> <<0, 0, 0, 0>>]

Sxy(p) == [sx |-> p.sx, sy |-> p.sy]

\* Kernels::rtpt(): V0, V1, V2 go to SXY0, SXY1, SXY2 and SZ1, SZ2, SZ3.
Rtpt(g, v0, v1, v2) ==
    [sxy |-> <<Sxy(v0), Sxy(v1), Sxy(v2)>>, sz |-> <<g.sz[4], v0.sz, v1.sz, v2.sz>>]

\* Kernels::rtps(): V0 is pushed onto the FIFO and ends up in SXY2 and SZ3.
Rtps(g, v) ==
    [sxy |-> <<g.sxy[2], g.sxy[3], Sxy(v)>>, sz |-> <<g.sz[2], g.sz[3], g.sz[4], v.sz>>]

\* A ScreenVtx stored from an SXY register and an SZ register (uint16_t cast).
StoreVtx(xy, sz) == [sx |-> xy.sx, sy |-> xy.sy, sz |-> sz % 65536]

\* A read of the oldest FIFO entry after rtps.
ReadRtpsOldest(g) == StoreVtx(g.sxy[1], g.sz[2])

\* The reads after rtps: SXY2 and SZ3.
ReadRtps(g) == StoreVtx(g.sxy[3], g.sz[4])

\* for (; i + 2 < count; i += 3): one rtpt per three vertices.  r holds the
\* scratch array, the GTE registers and the list of operations issued.
RECURSIVE BatchLoop(_, _, _, _)
BatchLoop(r, pos, count, i) ==
    IF i + 2 < count /\ Len(r.s) >= 0 /\ Len(r.ops) >= 0
    THEN LET g  == Rtpt(r.gte, pos[i + 1], pos[i + 2], pos[i + 3])
             s0 == WriteScratch(r.s, i, StoreVtx(g.sxy[1], g.sz[2]))
             s1 == WriteScratch(s0, i + 1, StoreVtx(g.sxy[2], g.sz[3]))
             s2 == WriteScratch(s1, i + 2, StoreVtx(g.sxy[3], g.sz[4]))
         IN  BatchLoop([s |-> s2, gte |-> g,
                        ops |-> Append(r.ops, [op |-> "rtpt", in |-> {i, i + 1, i + 2}])],
                       pos, count, i + 3)
    ELSE [r |-> r, i |-> i]

\* for (; i < count; i++): one rtps per remaining vertex.
RECURSIVE RestLoop(_, _, _, _)
RestLoop(r, pos, count, i) ==
    IF i < count /\ Len(r.s) >= 0 /\ Len(r.ops) >= 0
    THEN LET g == Rtps(r.gte, pos[i + 1])
         IN  RestLoop([s |-> WriteScratch(r.s, i, ReadRtps(g)), gte |-> g,
                       ops |-> Append(r.ops, [op |-> "rtps", in |-> {i}])],
                      pos, count, i + 1)
    ELSE r

transformVertices(s, gte, pos, count) ==
    LET b == BatchLoop([s |-> s, gte |-> gte, ops |-> <<>>], pos, count, 0)
    IN  RestLoop(b.r, pos, count, b.i)

\* Position arrays of MAX_VTX vertices; every vertex of an array is different,
\* and the depths of array 1 do not fit 16 bits.
PosArray(k) ==
    [i \in 1..MAX_VTX |->
        [sx |-> (7 * i + k) % 320, sy |-> (3 * i + 2 * k) % 240, sz |-> 65536 * k + i]]

\* g_scratch as an earlier call on a full chunk leaves it.
StaleScratch == TransformVertices(<<>>, PosArray(2), MAX_VTX)

\* One call transformVertices(pos, count) with 0 <= count <= MAX_VTX, on the
\* zeroed scratch array or on one filled by an earlier call.
TransformCall ==
    /\ ~xf.done
    /\ LET r == transformVertices(g_scratch, GteIdle, xf.pos, xf.count)
       IN  /\ g_scratch' = r.s
           /\ xf' = [xf EXCEPT !.done = TRUE, !.before = g_scratch, !.ops = r.ops]
    /\ UNCHANGED <<pc, ci, gpuParity, m_parity, m_triCount, m_ots, m_tris, chained,
                   m_prm, m_bones, limbTrace, frameWrites, drained>>
    /\ UNCHANGED <<allocVars, animVars, meshVars, loadVars, texVars, audioVars, p8Vars,
                   m_skm>>

InitXform ==
    /\ SceneInit /\ AllocInit /\ AnimInit /\ MeshInit /\ LoadInit
    /\ m_prm = NoRoom /\ m_skm = NoSkel
    /\ g_scratch \in {<<>>, StaleScratch} /\ texTri = NoTri
    /\ AudioStatics /\ musicData = NoMusic /\ P8Init
    /\ \E n \in 0..MAX_VTX : \E k \in {0, 1} :
          xf = [count |-> n, pos |-> PosArray(k), before |-> <<>>, ops |-> <<>>,
                done |-> FALSE]

NextXform == TransformCall

SpecXform == InitXform /\ [][NextXform]_vars

\* The operations of the call that took vertex i as an input.
OpsOn(i) == {k \in 1..Len(xf.ops) : i \in xf.ops[k].in}

OpsOfKind(kind) == {k \in 1..Len(xf.ops) : xf.ops[k].op = kind}

\* C23: for every n in 0..256, transformVertices(pos, n) writes scratch entry
\* i with the transform of pos[i] for every i < n, transforms each vertex
\* exactly once (floor(n / 3) batches of three, then n mod 3 single vertices),
\* and leaves the scratch entries with index >= n unchanged.
C23_TransformsEachVertexOnce ==
    (xf.done /\ Len(xf.pos) = MAX_VTX) =>
        /\ \A i \in 0..(xf.count - 1) :
              /\ ReadScratch(g_scratch, i) = GteRtp(xf.pos[i + 1])
              /\ Cardinality(OpsOn(i)) = 1
        /\ Cardinality(OpsOfKind("rtpt")) = xf.count \div 3
        /\ Cardinality(OpsOfKind("rtps")) = xf.count % 3
        /\ \A k \in 1..Len(xf.ops) : xf.ops[k].in \subseteq 0..(xf.count - 1)
        /\ \A i \in xf.count..(MAX_VTX - 1) :
              ReadScratch(g_scratch, i) = ReadScratch(xf.before, i)
        /\ Len(g_scratch) <= MAX_VTX
        /\ g_scratch = TransformVertices(xf.before, xf.pos, xf.count)

\* A call with a count that is not a multiple of three, on a scratch array
\* that held other vertices at and above the count.
C23_Witness ==
    /\ xf.done /\ xf.count % 3 = 2 /\ xf.count > 3 /\ xf.count < MAX_VTX
    /\ Len(xf.before) = MAX_VTX
    /\ g_scratch[xf.count + 1] = xf.before[xf.count + 1]
    /\ g_scratch[xf.count] # xf.before[xf.count]
    /\ xf.pos[xf.count].sz >= 65536

\* The room callback ran in this step and installed a buffer.
RoomInstalled == Len(pending') < Len(pending) /\ m_prm'.loaded

\* C28: for any interleaving of loadRoom requests and read-completion
\* callbacks, when a callback installs a room buffer the room index shown and
\* the spawn point applied are those of the room whose file the buffer was
\* read from; and while a load is in progress (m_loading) m_prm is null.
C28_InstalledRoomIsShown ==
    /\ [][RoomInstalled =>
             /\ m_roomIdx' = m_roomBuf'.file
             /\ m_skelPos' = ROOM_SPAWNS[m_roomBuf'.file + 1]]_vars
    /\ [](m_loading => ~m_prm.loaded)

-----------------------------------------------------------------------------
(* Texture coordinates of an emitted triangle (room.cpp:220-229)           *)

\* a & b on unsigned operands
RECURSIVE BitAnd(_, _)
BitAnd(a, b) ==
    IF a = 0 \/ b = 0 THEN 0
    ELSE (a % 2) * (b % 2) + 2 * BitAnd(a \div 2, b \div 2)

\* p.uvA.u = (uv[idx.v0].u & ti.u_mask) + ti.u_off, likewise v: the sum is
\* stored in a uint8_t.
ResolveUv(uv, ti) ==
    [u |-> UInt8(BitAnd(uv.u, ti.u_mask) + ti.u_off),
     v |-> UInt8(BitAnd(uv.v, ti.v_mask) + ti.v_off)]

\* Stored per-vertex coordinates (uint8_t u, v) of three triangles.
StoredUvs ==
    { << [u |-> 0, v |-> 0], [u |-> 63, v |-> 0], [u |-> 0, v |-> 63] >>,
      << [u |-> 0, v |-> 0], [u |-> 255, v |-> 0], [u |-> 0, v |-> 255] >>,
      << [u |-> 64, v |-> 200], [u |-> 100, v |-> 130], [u |-> 17, v |-> 192] >> }

\* renderChunk emits a triangle whose tex_id is the slot allocated last: the
\* last step of an allocator run.
TexturedTriangle ==
    /\ phase \in {"boot", "record"} /\ lastRet >= 0
    /\ \E st \in StoredUvs :
          LET ti == m_slots[lastRet + 1].info
          IN  texTri' = [slot |-> lastRet, stored |-> st,
                         uv |-> [k \in 1..3 |-> ResolveUv(st[k], ti)]]
    /\ phase' = "drawn"
    /\ UNCHANGED <<m_numSlots, m_slots, m_texCurX, m_texCurY, m_texRowH, m_clutCurX,
                   m_clutCurY, lastRet, reqs, recorded>>
    /\ UNCHANGED <<renderVars, animVars, meshVars, loadVars, xformVars, audioVars,
                   p8Vars, m_skm>>

NextTex == AllocCall \/ ResetCall \/ TexturedTriangle

SpecTex == InitAlloc /\ [][NextTex]_vars

\* The request that filled the slot of the triangle on record.
TexReq == reqs[CHOOSE k \in 1..Len(reqs) : reqs[k].ret = texTri.slot].req

\* C24: for every emitted textured triangle and each of its vertices, the
\* resolved coordinate is (stored coordinate AND the slot's wrap mask) + the
\* slot's pixel offset in each axis, and lies inside the texture's texel
\* rectangle [u_off, u_off + width - 1] x [v_off, v_off + height - 1], without
\* wrapping around the 8-bit coordinate range.
C24_UvInsideTexture ==
    texTri.slot >= 0 =>
        LET ti == m_slots[texTri.slot + 1].info
        IN  \A k \in 1..3 :
              /\ texTri.uv[k].u = BitAnd(texTri.stored[k].u, ti.u_mask) + ti.u_off
              /\ texTri.uv[k].v = BitAnd(texTri.stored[k].v, ti.v_mask) + ti.v_off
              /\ ti.u_off <= texTri.uv[k].u
              /\ texTri.uv[k].u <= ti.u_off + TexReq.texel_w - 1
              /\ ti.v_off <= texTri.uv[k].v
              /\ texTri.uv[k].v <= ti.v_off + TexReq.texel_h - 1

-----------------------------------------------------------------------------
(* The audio engine (psx_audio.cpp): music on voices 0-3, SFX on voices 4-7 *)

MUSIC_VOICE_BASE == 0
SFX_VOICE_BASE == 4
NUM_SFX_VOICES == 4
TICK_INC == 256
TICK_PER_SPEED == 128
\* notes per SFX: `if (ch.note_pos >= 32)`
SFX_NOTES == 32

\* The engine state as the functions pass it on: channels, keyed SPU voices,
\* music_pattern, music_loop_start, sfx_next_voice.
AudioState ==
    [ch |-> channels, spu |-> spuKeyed, pat |-> music_pattern,
     loop |-> music_loop_start, next |-> sfx_next_voice]

SetAudio(e) ==
    /\ channels' = e.ch /\ spuKeyed' = e.spu /\ music_pattern' = e.pat
    /\ music_loop_start' = e.loop /\ sfx_next_voice' = e.next

\* voice_key_off(voice, ch)
voice_key_off(e, voice) ==
    IF e.ch[voice].keyed_on
    THEN [e EXCEPT !.spu = @ \ {voice}, !.ch[voice].keyed_on = FALSE]
    ELSE e

\* sfx_notes[ch.sfx_id][ch.note_pos]
NoteOf(d, ch) == d.sfx[ch.sfx_id + 1].notes[ch.note_pos + 1]

\* start_channel_note(voice, ch)
start_channel_note(e, d, voice) ==
    IF NoteOf(d, e.ch[voice]).vol = 0 THEN voice_key_off(e, voice)
    ELSE LET e1 == voice_key_off(e, voice)
         IN  [e1 EXCEPT !.spu = @ \cup {voice}, !.ch[voice].keyed_on = TRUE]

\* apply_effects(voice, ch): the effects write SPU pitch and volume registers;
\* of the channel state only the vibrato phase changes.
apply_effects(e, d, voice) ==
    IF e.ch[voice].sfx_id < 0 THEN e
    ELSE LET note == NoteOf(d, e.ch[voice])
         IN  IF note.vol = 0 \/ note.effect = 0 THEN e
             ELSE IF note.effect = 2
                  THEN [e EXCEPT !.ch[voice].vibrato_phase = @ + 16]
                  ELSE e

\* The while loop of advance_channel and the apply_effects call after it.
RECURSIVE AdvanceNotes(_, _, _, _)
AdvanceNotes(e, d, voice, threshold) ==
    LET ch == e.ch[voice]
    IN  IF ch.tick >= threshold
        THEN LET meta == d.sfx[ch.sfx_id + 1]
                 pos1 == ch.note_pos + 1
                 pos  == IF meta.loop_end > 0 /\ pos1 >= meta.loop_end
                         THEN meta.loop_start ELSE pos1
                 e1   == [e EXCEPT !.ch[voice] =
                             [ch EXCEPT !.tick = ch.tick - threshold,
                                        !.note_pos = pos, !.vibrato_phase = 0]]
             IN  IF pos >= SFX_NOTES
                 THEN voice_key_off([e1 EXCEPT !.ch[voice].sfx_id = -1], voice)
                 ELSE AdvanceNotes(start_channel_note(e1, d, voice), d, voice, threshold)
        ELSE apply_effects(e, d, voice)

\* advance_channel(voice, ch)
advance_channel(e, d, voice) ==
    IF e.ch[voice].sfx_id < 0 THEN e
    ELSE LET meta == d.sfx[e.ch[voice].sfx_id + 1]
             speed == IF meta.speed < 1 THEN 1 ELSE meta.speed
         IN  AdvanceNotes([e EXCEPT !.ch[voice].tick = @ + TICK_INC], d, voice,
                          speed * TICK_PER_SPEED)

\* for (v = from; v < to; v++) advance_channel(v, channels[v])
RECURSIVE AdvanceVoices(_, _, _, _)
AdvanceVoices(e, d, from, to) ==
    IF from < to THEN AdvanceVoices(advance_channel(e, d, from), d, from + 1, to) ELSE e

\* The channel loop of music_advance_pattern: bit 7 of channel_sfx disables a
\* channel, the low six bits name the SFX.
RECURSIVE PatternChannels(_, _, _, _)
PatternChannels(e, d, pat, c) ==
    IF c < 4
    THEN LET voice == MUSIC_VOICE_BASE + c
             e1 == IF pat.channel_sfx[c + 1] >= 128
                   THEN IF e.ch[c].sfx_id >= 0
                        THEN voice_key_off([e EXCEPT !.ch[c].sfx_id = -1], voice)
                        ELSE e
                   ELSE start_channel_note(
                            [e EXCEPT !.ch[c] = [@ EXCEPT !.sfx_id = pat.channel_sfx[c + 1] % 64,
                                                          !.note_pos = 0, !.tick = 0,
                                                          !.vibrato_phase = 0]],
                            d, voice)
         IN  PatternChannels(e1, d, pat, c + 1)
    ELSE e

\* music_advance_pattern()
music_advance_pattern(e, d) ==
    IF e.pat < 0 \/ e.pat >= Len(d.patterns) THEN [e EXCEPT !.pat = -1]
    ELSE LET pat == d.patterns[e.pat + 1]
             e1 == IF "LOOP_START" \in pat.flags THEN [e EXCEPT !.loop = e.pat] ELSE e
         IN  PatternChannels(e1, d, pat, 0)

\* music_any_channel_done()
music_any_channel_done(e, d) ==
    \E c \in 0..3 : d.patterns[e.pat + 1].channel_sfx[c + 1] < 128 /\ e.ch[c].sfx_id < 0

\* music_pattern = -1; for every music channel: sfx_id = -1; voice_key_off
RECURSIVE StopChannels(_, _, _)
StopChannels(e, from, to) ==
    IF from < to
    THEN StopChannels(voice_key_off([e EXCEPT !.ch[from].sfx_id = -1], from), from + 1, to)
    ELSE e

\* The music part of audio_update.
UpdateMusic(e, d) ==
    IF e.pat < 0 THEN e
    ELSE LET a == AdvanceVoices(e, d, MUSIC_VOICE_BASE, MUSIC_VOICE_BASE + 4)
         IN  IF ~music_any_channel_done(a, d) THEN a
             ELSE LET pat == d.patterns[a.pat + 1]
                  IN  IF "STOP" \in pat.flags
                      THEN StopChannels([a EXCEPT !.pat = -1], 0, 4)
                      ELSE IF "LOOP_END" \in pat.flags
                      THEN music_advance_pattern(
                               [a EXCEPT !.pat = IF a.loop >= 0 THEN a.loop ELSE 0], d)
                      ELSE IF a.pat + 1 >= Len(d.patterns)
                      THEN [a EXCEPT !.pat = -1]
                      ELSE music_advance_pattern([a EXCEPT !.pat = a.pat + 1], d)

\* audio_update()
audio_update(e, d) ==
    AdvanceVoices(UpdateMusic(e, d), d, SFX_VOICE_BASE, SFX_VOICE_BASE + NUM_SFX_VOICES)

\* audio_music(pattern, fade, mask)
audio_music(e, d, pattern) ==
    IF pattern < 0 THEN StopChannels([e EXCEPT !.pat = -1], 0, 4)
    ELSE IF pattern >= Len(d.patterns) THEN e
    ELSE music_advance_pattern([e EXCEPT !.pat = pattern, !.loop = -1], d)

\* The SFX voices without a running SFX.
FreeSfxSlots(e) == {s \in 0..(NUM_SFX_VOICES - 1) : e.ch[SFX_VOICE_BASE + s].sfx_id < 0}

\* audio_sfx(id)
audio_sfx(e, d, id) ==
    IF id < 0 \/ id >= 64
    THEN StopChannels(e, SFX_VOICE_BASE, SFX_VOICE_BASE + NUM_SFX_VOICES)
    ELSE LET free == FreeSfxSlots(e)
             slot == IF free # {} THEN CHOOSE s \in free : \A r \in free : s <= r
                     ELSE e.next
             e1 == IF free # {} THEN e
                   ELSE [e EXCEPT !.next = (e.next + 1) % NUM_SFX_VOICES]
             voice == SFX_VOICE_BASE + slot
         IN  start_channel_note(
                 [e1 EXCEPT !.ch[voice] = [@ EXCEPT !.sfx_id = id, !.note_pos = 0,
                                                    !.tick = 0, !.vibrato_phase = 0]],
                 d, voice)

\* audio_init(): SPU set up, every voice keyed off, channels and music reset.
AudioInit ==
    /\ channels' = [v \in 0..7 |-> [StaticChannel EXCEPT !.sfx_id = -1]]
    /\ spuKeyed' = {}
    /\ music_pattern' = -1 /\ music_loop_start' = -1
    /\ audioReady' = TRUE
    /\ UNCHANGED <<sfx_next_voice, musicData>>
    /\ UNCHANGED <<renderVars, allocVars, animVars, meshVars, loadVars, xformVars,
                   texVars, p8Vars, m_skm>>

AudioUpdate ==
    /\ audioReady
    /\ SetAudio(audio_update(AudioState, musicData))
    /\ UNCHANGED <<audioReady, musicData>>
    /\ UNCHANGED <<renderVars, allocVars, animVars, meshVars, loadVars, xformVars,
                   texVars, p8Vars, m_skm>>

AudioMusic ==
    /\ audioReady
    /\ \E pattern \in -1..Len(musicData.patterns) :
          SetAudio(audio_music(AudioState, musicData, pattern))
    /\ UNCHANGED <<audioReady, musicData>>
    /\ UNCHANGED <<renderVars, allocVars, animVars, meshVars, loadVars, xformVars,
                   texVars, p8Vars, m_skm>>

\* audio_sfx(id) with at most MaxSfxVoices SFX playing at a time.
AudioSfx ==
    /\ audioReady
    /\ \E id \in {-1, 0} :
          /\ id >= 0 => NUM_SFX_VOICES - Cardinality(FreeSfxSlots(AudioState)) < MaxSfxVoices
          /\ SetAudio(audio_sfx(AudioState, musicData, id))
    /\ UNCHANGED <<audioReady, musicData>>
    /\ UNCHANGED <<renderVars, allocVars, animVars, meshVars, loadVars, xformVars,
                   texVars, p8Vars, m_skm>>

\* SFX tables: 0 is short (two notes a frame), 1 is long (a note a frame, some
\* silent notes, vibrato on others), 2 loops over its first two notes.
SfxNote(v, fx) == [vol |-> v, effect |-> fx]

SfxTable ==
    << [speed |-> 1, loop_start |-> 0, loop_end |-> 0,
        notes |-> [i \in 1..SFX_NOTES |-> SfxNote(5, 0)]],
       [speed |-> 2, loop_start |-> 0, loop_end |-> 0,
        notes |-> [i \in 1..SFX_NOTES |->
                      SfxNote(IF i % 4 = 0 THEN 0 ELSE 5, IF i % 2 = 1 THEN 2 ELSE 0)]],
       [speed |-> 1, loop_start |-> 0, loop_end |-> 2,
        notes |-> [i \in 1..SFX_NOTES |-> SfxNote(5, 0)]] >>

\* channel_sfx byte of a disabled channel: bit 7 set over an SFX number
Disabled(id) == 128 + id
OFF == Disabled(65)

Pattern(flags, c0, c1, c2, c3) == [flags |-> flags, channel_sfx |-> <<c0, c1, c2, c3>>]

\* Pattern tables: none; one pattern with or without the stop flag; a loop of
\* two patterns; two patterns ending in a stop; a pattern of disabled channels.
PatternTables ==
    { <<>>,
      << Pattern({}, 0, 1, OFF, OFF) >>,
      << Pattern({"STOP"}, 0, 1, OFF, OFF) >>,
      << Pattern({"LOOP_START"}, 0, OFF, 2, OFF), Pattern({"LOOP_END"}, 1, 0, OFF, OFF) >>,
      << Pattern({}, 0, 0, OFF, OFF), Pattern({"STOP"}, OFF, 1, OFF, 0) >>,
      << Pattern({}, OFF, OFF, OFF, OFF) >> }

InitAudio ==
    /\ RenderInit /\ AllocInit /\ AnimInit /\ MeshInit /\ LoadInit
    /\ m_prm = NoRoom /\ m_skm = NoSkel
    /\ XformInit /\ texTri = NoTri /\ AudioStatics /\ P8Init
    /\ \E pt \in PatternTables : musicData = [patterns |-> pt, sfx |-> SfxTable]

NextAudio == AudioInit \/ AudioUpdate \/ AudioMusic \/ AudioSfx

SpecAudio == InitAudio /\ [][NextAudio]_vars

\* C29: whenever music is stopped (music_pattern = -1) on return from
\* audio_init, audio_update or audio_music, none of the music channels 0..3 is
\* active (sfx_id >= 0) or keyed on.
C29_StoppedMusicIsSilent ==
    (audioReady /\ music_pattern = -1) =>
        \A c \in 0..3 : channels[c].sfx_id < 0 /\ ~channels[c].keyed_on /\ c \notin spuKeyed

(***************************************************************************)
(* Celeste platform layer (celeste/main.cpp): the draw callbacks of one    *)
(* frame and the depth counter g_rs.zCounter                               *)
(***************************************************************************)

\* A callback in progress: the render state and the indexes it has passed to
\* g_rs.ot->insert so far.
P8Call(rs) == [rs |-> rs, ins |-> <<>>]

ensureGfxTPage(st) ==
    IF st.rs.tpageIsFont /\ st.rs.tpageIdx < MAX_TPAGES
    THEN [rs  |-> [st.rs EXCEPT !.tpageIdx = @ + 1, !.zCounter = @ - 1,
                                !.tpageIsFont = FALSE],
          ins |-> Append(st.ins, st.rs.zCounter)]
    ELSE st

ensureFontTPage(st) ==
    IF ~st.rs.tpageIsFont /\ st.rs.tpageIdx < MAX_TPAGES
    THEN [rs  |-> [st.rs EXCEPT !.tpageIdx = @ + 1, !.zCounter = @ - 1,
                                !.tpageIsFont = TRUE],
          ins |-> Append(st.ins, st.rs.zCounter)]
    ELSE st

addRect(st) ==
    IF st.rs.rectIdx >= MAX_RECTS THEN st
    ELSE [rs  |-> [st.rs EXCEPT !.rectIdx = @ + 1],
          ins |-> Append(st.ins, st.rs.zCounter)]

RECURSIVE AddRects(_, _)
AddRects(st, n) == IF n = 0 THEN st ELSE AddRects(addRect(st), n - 1)

\* The sprite loops of PRINT and MAP: one sprite per character or matching
\* tile at the current depth, stopping when the sprite pool is full.
RECURSIVE AddSprites(_, _)
AddSprites(st, n) ==
    IF n = 0 \/ st.rs.spriteIdx >= MAX_SPRITES THEN st
    ELSE AddSprites([rs  |-> [st.rs EXCEPT !.spriteIdx = @ + 1],
                     ins |-> Append(st.ins, st.rs.zCounter)], n - 1)

ZDec(st) == [st EXCEPT !.rs.zCounter = @ - 1]

\* The midpoint loop of CIRCFILL for r > 3: the number of its iterations,
\* each adding four rectangles.
RECURSIVE MidpointSteps(_, _, _, _, _)
MidpointSteps(f, ddFx, ddFy, ix, iy) ==
    IF ix >= iy THEN 0
    ELSE LET down == f >= 0
             iy1  == IF down THEN iy - 1 ELSE iy
             dy1  == IF down THEN ddFy + 2 ELSE ddFy
             f1   == IF down THEN f + dy1 ELSE f
         IN  1 + MidpointSteps(f1 + ddFx + 2, ddFx + 2, dy1, ix + 1, iy1)

CircRects(r) ==
    IF r <= 2 THEN 2
    ELSE IF r <= 3 THEN 3
    ELSE 2 + 4 * MidpointSteps(1 - r, 1, -2 * r, 0, r)

spr(rs, sprite) ==
    IF sprite >= 0 /\ rs.spriteIdx < MAX_SPRITES
    THEN LET st == ensureGfxTPage(P8Call(rs))
         IN  ZDec([rs  |-> [st.rs EXCEPT !.spriteIdx = @ + 1],
                   ins |-> Append(st.ins, st.rs.zCounter)])
    ELSE P8Call(rs)

circfill(rs, r) == ZDec(AddRects(P8Call(rs), CircRects(r)))

print(rs, len) == ZDec(AddSprites(ensureFontTPage(P8Call(rs)), len))

rectfill(rs) == ZDec(addRect(P8Call(rs)))

line(rs) ==
    IF rs.lineIdx < MAX_LINES
    THEN ZDec([rs  |-> [rs EXCEPT !.lineIdx = @ + 1],
               ins |-> <<rs.zCounter>>])
    ELSE P8Call(rs)

map(rs, tiles) == ZDec(AddSprites(ensureGfxTPage(P8Call(rs)), tiles))

RECURSIVE SeqMin(_, _)
SeqMin(s, low) ==
    IF s = <<>> THEN low
    ELSE SeqMin(Tail(s), IF Head(s) < low THEN Head(s) ELSE low)

\* CelesteScene::frame up to the call of the game: the render state is reset
\* and the initial TPage goes to the highest bucket.
CelesteFrameBegin ==
    /\ p8pc = "idle"
    /\ g_rs' = [spriteIdx |-> 0, rectIdx |-> 0, lineIdx |-> 0, tpageIdx |-> 1,
                zCounter |-> P8_OT_SIZE - 2, tpageIsFont |-> FALSE]
    /\ p8ins' = <<>> /\ p8low' = P8_OT_SIZE - 1 /\ p8others' = 0
    /\ p8pc' = "draw"
    /\ UNCHANGED <<renderVars, allocVars, animVars, meshVars, loadVars, xformVars,
                   texVars, audioVars, m_skm>>

\* A draw callback made by Celeste_P8_update / Celeste_P8_draw returns.
P8Return(st) ==
    /\ g_rs' = st.rs
    /\ p8ins' = st.ins
    /\ p8low' = SeqMin(st.ins, p8low)
    /\ UNCHANGED <<p8pc, renderVars, allocVars, animVars, meshVars, loadVars,
                   xformVars, texVars, audioVars, m_skm>>

P8Drawing == p8pc = "draw" /\ g_rs.zCounter > -MaxUnder

P8Other == P8Drawing /\ p8others < MaxOther /\ p8others' = p8others + 1

P8Spr ==
    /\ P8Drawing /\ UNCHANGED p8others
    /\ \E sprite \in {-1, 0} : P8Return(spr(g_rs, sprite))

P8Circfill == P8Other /\ \E r \in {1, 3, 4} : P8Return(circfill(g_rs, r))

P8Print == P8Other /\ \E len \in 0..MaxTiles : P8Return(print(g_rs, len))

P8Rectfill == P8Other /\ P8Return(rectfill(g_rs))

P8Line == P8Other /\ P8Return(line(g_rs))

P8Map == P8Other /\ \E tiles \in 0..MaxTiles : P8Return(map(g_rs, tiles))

\* The rest of CelesteScene::frame: the ordering table is chained.
CelesteFrameEnd ==
    /\ p8pc = "draw"
    /\ p8pc' = "idle" /\ p8ins' = <<>>
    /\ UNCHANGED <<g_rs, p8low, p8others, renderVars, allocVars, animVars,
                   meshVars, loadVars, xformVars, texVars, audioVars, m_skm>>

InitCeleste ==
    /\ RenderInit /\ AllocInit /\ AnimInit /\ MeshInit /\ LoadInit
    /\ m_prm = NoRoom /\ m_skm = NoSkel /\ ExtInit

NextCeleste ==
    \/ CelesteFrameBegin \/ P8Spr \/ P8Circfill \/ P8Print \/ P8Rectfill
    \/ P8Line \/ P8Map \/ CelesteFrameEnd

SpecCeleste == InitCeleste /\ [][NextCeleste]_vars

P8InsertsInRange == \A i \in 1..Len(p8ins) : 0 <= p8ins[i] /\ p8ins[i] < P8_OT_SIZE

P8InsertsNotAbove == \A i \in 1..Len(p8ins') : p8ins'[i] <= p8low

\* C30: within one frame every primitive a draw callback (SPR, MAP, PRINT,
\* RECTFILL, CIRCFILL, LINE) inserts goes to an ordering-table index in
\* 0..OT_SIZE-1, and a later callback's primitive never gets a higher index
\* than a primitive inserted before that callback.
C30_DepthInRangeAndOrdered == []P8InsertsInRange /\ [][P8InsertsNotAbove]_vars

=============================================================================
